---- MODULE Spec2Model ----
(***************************************************************************)
(* State-machine model of js/script_new.js: the form-state persistence and *)
(* recovery machinery (AppState, AutoSave, FormManager, Navigation,        *)
(* ReportTemplates, ReportAnalytics, ReportGenerator, App).                 *)
(*                                                                         *)
(* Every handler of the script is an operator from a world record to a     *)
(* world record (the record holds AppState, localStorage, the form fields, *)
(* the live interval timers and what the handler reported); an action of   *)
(* the state machine applies one handler, whole, to the current world.     *)
(***************************************************************************)
EXTENDS Integers, Sequences, FiniteSets, TLC

VARIABLES
  AppState,      \* the AppState singleton (script_new.js:4-16)
  localStorage,  \* the four persisted slots
  dom,           \* the form: field values per section, the visible section
  templates,     \* ReportTemplates.templates
  intervals,     \* ids of the setInterval timers that are alive
  nextTimerId,   \* the id the next setInterval returns
  debounce,      \* TRUE while the debounced form save is armed
  phase,         \* "closed" | "running" | "unloading"
  now,           \* Date.now()
  out            \* what the last handler did and reported

vars == <<AppState, localStorage, dom, templates, intervals, nextTimerId,
          debounce, phase, now, out>>

-----------------------------------------------------------------------------
(* Bounds of the model                                                     *)

\* interval ids one page load may hand out
MaxTimers == 2
\* length of the report history
MaxReports == 2
\* length of a rule list
MaxRules == 2
\* number of fields of a section validateForm is called on
MaxFields == 2

-----------------------------------------------------------------------------
(* Constants of the program                                                *)

\* the freshness window of a snapshot, in milliseconds
FreshWindow == 24 * 60 * 60 * 1000
HourMs == 60 * 60 * 1000

\* The instants the clock is sampled at: a snapshot taken at 0 is exactly 24
\* hours old at the second and 25 hours old at the third; one taken at the
\* second is an hour old at the third.
Instants == {0, FreshWindow, 25 * HourMs}

\* AppState.lastSaveTime = null
NoTime == -1
\* AppState.autoSaveTimer = null
NoTimer == 0

\* the report types of the model, and the default one
ReportTypes == {"arrest", "citation"}
DefaultReport == "arrest"

\* the input fields of each section, in document order
SectionFields(t) ==
  IF t = "arrest" THEN <<"arrestLocation">> ELSE <<"violations">>

FieldSet(t) == {SectionFields(t)[i] : i \in 1..Len(SectionFields(t))}

\* the fields of a section that carry the required or the data-essential
\* attribute
EssentialFields(t) == IF t = "arrest" THEN {"arrestLocation"} ELSE {}

\* the ids of the checkboxes: getFormData stores input.checked under them,
\* a boolean, and input.value, a string, under every other id
CheckboxIds == {"mirandaRead"}

\* what a user types into a field
TypedValues == {"", "x"}

\* String.prototype.trim() leaves nothing
IsBlank(v) == v \in {"", " "}

-----------------------------------------------------------------------------
(* JSON and localStorage                                                   *)

Absent == [st |-> "absent"]
Corrupt == [st |-> "corrupt"]

\* JSON.stringify of plain data: the text that parses back to the value
JSONstringify(v) == [st |-> "json", v |-> v]

\* JSON.parse throws a SyntaxError on text that is not JSON
ParseThrows(item) == item.st # "json"
JSONparse(item) == item.v

StorageKeys == {"kyntraAutoSave", "kyntraFormData", "kyntraCustomTemplates",
                "kyntraReportHistory"}

\* localStorage.getItem returns null for a key never set
IsNull(item) == item.st = "absent"

setItem(w, key, text) == [w EXCEPT !.ls[key] = text]
removeItem(w, key) == [w EXCEPT !.ls[key] = Absent]

-----------------------------------------------------------------------------
(* The form                                                                *)

\* a key of AppState.formData that was never assigned
Undefined == [undefined |-> TRUE]

EmptyFormData == [t \in ReportTypes |-> Undefined]

BlankSection(t) == [k \in FieldSet(t) |-> ""]

\* the page as served: every field empty, one blank item in each repeated
\* group, the default section visible
InitialDom ==
  [sec |-> [t \in ReportTypes |-> BlankSection(t)],
   officers |-> <<"">>,
   suspects |-> <<[name |-> "", id |-> "", charges |-> ""]>>,
   active |-> DefaultReport]

\* FormManager.getDynamicFields('arrestingOfficers', 'officer-input')
getOfficers(d) == SelectSeq(d.officers, LAMBDA v : ~IsBlank(v))

\* (a filter that also keeps an item that has charges)
getSuspects_keepsCharged(d) ==
  SelectSeq(d.suspects,
            LAMBDA s : ~IsBlank(s.name) \/ ~IsBlank(s.id) \/ ~IsBlank(s.charges))

\* FormManager.getDynamicFields('suspects', 'suspect-item')
getSuspects(d) ==
  SelectSeq(d.suspects, LAMBDA s : ~IsBlank(s.name) \/ ~IsBlank(s.id))

\* FormManager.getFormData
getFormData(d, t) ==
  [keys |-> SectionFields(t) \o <<"officers", "suspects">>, f |-> d.sec[t],
   officers |-> getOfficers(d), suspects |-> getSuspects(d)]

\* inputs.forEach of getFormData on the inputs of a section, each with its
\* id, name, type, value and checked: the record as its keys in insertion
\* order and the value of each
RECURSIVE collectInputs(_, _, _)
collectInputs(inputs, i, formData) ==
  IF i > Len(inputs) THEN formData
  ELSE LET input == inputs[i]
           set(key, value) ==
             [keys |-> IF key \in DOMAIN formData.v THEN formData.keys
                       ELSE Append(formData.keys, key),
              v |-> (key :> value) @@ formData.v]
       IN collectInputs(inputs, i + 1,
            IF input.type = "checkbox" THEN set(input.id, input.checked)
            ELSE IF input.type = "radio"
            THEN (IF input.checked THEN set(input.name, input.value)
                  ELSE formData)
            ELSE set(input.id, input.value))

\* Object.keys(formData).forEach of populateForm on the inputs of a section:
\* section.querySelector('#' + key) is the first input with the id
RECURSIVE populateInputs(_, _, _)
populateInputs(inputs, formData, i) ==
  IF i > Len(formData.keys) THEN inputs
  ELSE LET key == formData.keys[i]
           found == {j \in 1..Len(inputs) : inputs[j].id = key}
       IN IF found = {} THEN populateInputs(inputs, formData, i + 1)
          ELSE LET element == CHOOSE j \in found : \A k \in found : j <= k
               IN populateInputs(
                    IF inputs[element].type = "checkbox"
                    THEN [inputs EXCEPT ![element].checked = formData.v[key]]
                    ELSE [inputs EXCEPT ![element].value = formData.v[key]],
                    formData, i + 1)

\* FormManager.populateForm: the keys of the stored record that name a field
\* of the section are written to it
populateForm(w, t) ==
  LET rec == w.app.formData[t] IN
  IF rec = Undefined THEN w
  ELSE [w EXCEPT !.dom.sec[t] =
          [k \in FieldSet(t) |-> IF k \in DOMAIN rec.f THEN rec.f[k] ELSE @[k]]]

\* (a clearForm that forgets the stored record of the section as well)
clearForm_forgets(w, t) ==
  [w EXCEPT !.dom.sec[t] = BlankSection(t),
            !.dom.officers = IF t = "arrest" THEN <<"">> ELSE @,
            !.dom.suspects = IF t = "arrest"
                             THEN <<[name |-> "", id |-> "", charges |-> ""]>>
                             ELSE @,
            !.app.formData[t] = Undefined]

\* FormManager.clearForm: inputs emptied, repeated groups cut to one item
\* (the repeated groups are taken to lie in the arrest section)
clearForm(w, t) ==
  [w EXCEPT !.dom.sec[t] = BlankSection(t),
            !.dom.officers = IF t = "arrest" THEN <<"">> ELSE @,
            !.dom.suspects = IF t = "arrest"
                             THEN <<[name |-> "", id |-> "", charges |-> ""]>>
                             ELSE @]

-----------------------------------------------------------------------------
(* The world a handler runs in                                             *)

\* AppState as the script creates it
InitialAppState ==
  [currentReport |-> DefaultReport,
   formData |-> EmptyFormData,
   generatedReports |-> <<>>,
   autoSaveTimer |-> NoTimer,
   lastSaveTime |-> NoTime,
   isDirty |-> FALSE]

\* what a handler reported: threw, whether an error left it; recovery, the
\* branch checkForRecovery took ("none" when it did not run); saves, the
\* number of snapshot writes; failed, whether a snapshot write failed;
\* prompt, whether the exit asked for confirmation; status, the level of the
\* StatusManager message of a history or generation handler; report, the
\* text put into #reportOutput; downloads, the number of file downloads started;
\* validation, the arguments and the result of a call of runValidation;
\* form, the fields and the result of a call of validateForm on a section of
\* its own (firstInvalidField is the position of the field, 0 for null;
\* invalid, the positions of the fields updateFieldUI gave the class invalid)
NoValidation ==
  [value |-> "", rules |-> <<>>,
   result |-> [isValid |-> TRUE, errors |-> <<>>, warnings |-> <<>>]]

\* stats, the argument and the result of a call of calculateStatistics
NoStats ==
  [reports |-> <<>>,
   result |-> [total |-> 0, thisWeek |-> 0, thisMonth |-> 0,
               typeDistribution |-> [keys |-> <<>>, count |-> <<>>],
               mostUsedType |-> "None"]]

\* csv, the argument and the result of a call of generateCSV
NoCSV == [reports |-> <<>>, content |-> <<>>]

\* roundtrip, the inputs a record was extracted from, the record, the inputs
\* it was injected into and the inputs after the injection
NoRoundTrip == [source |-> <<>>, record |-> <<>>, target |-> <<>>, after |-> <<>>]

NoForm ==
  [fields |-> <<>>,
   result |-> [isValid |-> TRUE, firstInvalidField |-> 0, invalid |-> {}]]

Quiet ==
  [threw |-> FALSE, recovery |-> "none", saves |-> 0, failed |-> FALSE,
   prompt |-> FALSE, status |-> "none", report |-> "", downloads |-> 0,
   validation |-> NoValidation, form |-> NoForm, stats |-> NoStats,
   csv |-> NoCSV, roundtrip |-> NoRoundTrip]

\* the world of a handler run: the state, and the inputs of this run (the
\* clock, the answer to confirm(), whether localStorage accepts the snapshot)
World(confirm, writeOK) ==
  [app |-> AppState, ls |-> localStorage, dom |-> dom, tpl |-> templates,
   iv |-> intervals, nextId |-> nextTimerId,
   now |-> now, confirm |-> confirm, writeOK |-> writeOK,
   out |-> Quiet]

\* new Date().toISOString() and new Date(iso).getTime(): ISO-8601 text keeps
\* the millisecond
toISOString(t) == [iso |-> t]
getTime(s) == s.iso

-----------------------------------------------------------------------------
(* FormManager: the per-type save and load                                 *)

\* AutoSave.markDirty
markDirty(w) == [w EXCEPT !.app.isDirty = TRUE]

\* a faulty saveFormData that keeps only the record of the current type
saveFormData_onlyCurrent(w) ==
  LET t == w.app.currentReport
      w1 == [w EXCEPT !.app.formData =
               [u \in ReportTypes |->
                  IF u = t THEN getFormData(w.dom, t) ELSE Undefined]]
      w2 == setItem(w1, "kyntraFormData", JSONstringify(w1.app.formData))
  IN markDirty(w2)

\* a faulty saveFormData that discards the snapshot
saveFormData_dropsSnapshot(w) ==
  LET t == w.app.currentReport
      w1 == [w EXCEPT !.app.formData[t] = getFormData(w.dom, t)]
      w2 == setItem(w1, "kyntraFormData", JSONstringify(w1.app.formData))
  IN markDirty(removeItem(w2, "kyntraAutoSave"))

\* FormManager.saveFormData: the record of the current report type is
\* extracted, stored in the mapping, the mapping persisted (the write is
\* taken to succeed), the tracker set
saveFormData(w) ==
  LET t == w.app.currentReport
      w1 == [w EXCEPT !.app.formData[t] = getFormData(w.dom, t)]
      w2 == setItem(w1, "kyntraFormData", JSONstringify(w1.app.formData))
  IN markDirty(w2)

\* FormManager.loadFormData: JSON.parse runs outside any try block
loadFormData(w, t) ==
  LET saved == w.ls["kyntraFormData"] IN
  IF IsNull(saved) THEN w
  ELSE IF ParseThrows(saved) THEN [w EXCEPT !.out.threw = TRUE]
  ELSE populateForm([w EXCEPT !.app.formData = JSONparse(saved)], t)

\* Navigation.switchReport
switchReport(w, t) ==
  loadFormData([w EXCEPT !.dom.active = t, !.app.currentReport = t], t)

-----------------------------------------------------------------------------
(* AutoSave                                                                *)

\* AutoSave.stopAutoSave
stopAutoSave(w) ==
  IF w.app.autoSaveTimer # NoTimer
  THEN [w EXCEPT !.iv = @ \ {w.app.autoSaveTimer},
                 !.app.autoSaveTimer = NoTimer]
  ELSE w

\* a faulty startAutoSave that does not clear the timer it replaces
startAutoSave_keepsOld(w) ==
  [w EXCEPT !.app.autoSaveTimer = w.nextId,
            !.iv = @ \cup {w.nextId},
            !.nextId = @ + 1]

\* AutoSave.startAutoSave
startAutoSave(w) ==
  LET w1 == stopAutoSave(w) IN
  [w1 EXCEPT !.app.autoSaveTimer = w1.nextId,
             !.iv = @ \cup {w1.nextId},
             !.nextId = @ + 1]

\* a faulty saveData that writes the snapshot and leaves the tracker Dirty
saveData_keepsDirty(w) ==
  LET saveData_ == [formData |-> w.app.formData,
                    currentReport |-> w.app.currentReport,
                    timestamp |-> toISOString(w.now),
                    version |-> "1.0"]
  IN IF w.writeOK
     THEN [setItem(w, "kyntraAutoSave", JSONstringify(saveData_))
             EXCEPT !.app.lastSaveTime = w.now,
                    !.out.saves = @ + 1]
     ELSE [w EXCEPT !.out.failed = TRUE]

\* (a saveData that takes a refused write for a save)
saveData_givesUp(w) ==
  LET saveData_ == [formData |-> w.app.formData,
                    currentReport |-> w.app.currentReport,
                    timestamp |-> toISOString(w.now),
                    version |-> "1.0"]
  IN IF w.writeOK
     THEN [setItem(w, "kyntraAutoSave", JSONstringify(saveData_))
             EXCEPT !.app.lastSaveTime = w.now,
                    !.app.isDirty = FALSE,
                    !.out.saves = @ + 1]
     ELSE [w EXCEPT !.out.failed = TRUE, !.app.isDirty = FALSE]

\* AutoSave.saveData: the write, lastSaveTime and isDirty are inside the try
\* block; a failed write is caught and reported
saveData(w) ==
  LET saveData_ == [formData |-> w.app.formData,
                    currentReport |-> w.app.currentReport,
                    timestamp |-> toISOString(w.now),
                    version |-> "1.0"]
  IN IF w.writeOK
     THEN [setItem(w, "kyntraAutoSave", JSONstringify(saveData_))
             EXCEPT !.app.lastSaveTime = w.now,
                    !.app.isDirty = FALSE,
                    !.out.saves = @ + 1]
     ELSE [w EXCEPT !.out.failed = TRUE]

\* a faulty callback that saves whether or not the tracker is Dirty
intervalCallback_always(w) == saveData(w)

\* the callback startAutoSave hands to setInterval
intervalCallback(w) == IF w.app.isDirty THEN saveData(w) ELSE w

\* a faulty offerRecovery that keeps a declined snapshot
offerRecovery_keepsDeclined(w, data) ==
  IF w.confirm
  THEN LET w1 == [w  EXCEPT !.out.recovery = "accepted",
                            !.app.formData = data.formData,
                            !.app.currentReport = data.currentReport]
           w2 == loadFormData(w1, w1.app.currentReport)
       IN IF w2.out.threw THEN w2
          ELSE switchReport(w2, w2.app.currentReport)
  ELSE [w EXCEPT !.out.recovery = "declined"]

\* AutoSave.offerRecovery
offerRecovery(w, data) ==
  IF w.confirm
  THEN LET w1 == [w  EXCEPT !.out.recovery = "accepted",
                            !.app.formData = data.formData,
                            !.app.currentReport = data.currentReport]
           w2 == loadFormData(w1, w1.app.currentReport)
       IN IF w2.out.threw THEN w2
          ELSE switchReport(w2, w2.app.currentReport)
  ELSE removeItem([w EXCEPT !.out.recovery = "declined"], "kyntraAutoSave")

\* a faulty freshness test that takes a snapshot of exactly 24 hours
IsFresh_inclusive(timeDiff) == timeDiff <= FreshWindow

\* the freshness test of AutoSave.checkForRecovery
IsFresh(timeDiff) == timeDiff < FreshWindow

\* AutoSave.checkForRecovery: the parse, the freshness test and the offer are
\* inside one try block whose handler removes the snapshot
checkForRecovery(w) ==
  LET savedData == w.ls["kyntraAutoSave"] IN
  IF IsNull(savedData) THEN [w EXCEPT !.out.recovery = "absent"]
  ELSE IF ParseThrows(savedData)
  THEN removeItem([w EXCEPT !.out.recovery = "corrupt"], "kyntraAutoSave")
  ELSE LET data == JSONparse(savedData)
           timeDiff == w.now - getTime(data.timestamp)
       IN IF IsFresh(timeDiff)
          THEN LET w1 == offerRecovery(w, data) IN
               IF w1.out.threw
               THEN removeItem([w1 EXCEPT !.out.threw = FALSE], "kyntraAutoSave")
               ELSE w1
          ELSE removeItem([w EXCEPT !.out.recovery = "stale"], "kyntraAutoSave")

\* AutoSave.init (AppState.settings.autoSave is true and never changed)
AutoSave_init(w) == startAutoSave(checkForRecovery(w))

\* a faulty exit guard that asks whatever the tracker says
handleBeforeUnload_always(w) == [w EXCEPT !.out.prompt = TRUE]

\* AutoSave.handleBeforeUnload
handleBeforeUnload(w) ==
  IF w.app.isDirty THEN [w EXCEPT !.out.prompt = TRUE] ELSE w

-----------------------------------------------------------------------------
(* ReportTemplates                                                         *)

\* ReportTemplates.templates as written in the script: the first built-in
\* template of each modelled report type, with the first key of its data
BuiltinTemplates ==
  [t \in ReportTypes |->
     IF t = "arrest"
     THEN "DUI Arrest" :>
            [description |-> "Driving Under the Influence arrest template",
             data |-> ("incidentSummary" :>
                        "Subject was observed operating a motor vehicle in an erratic manner. Field sobriety tests were administered and subject showed signs of impairment. Subject was placed under arrest for DUI."),
             custom |-> FALSE]
     ELSE "Speeding" :>
            [description |-> "Standard speeding violation",
             data |-> ("violations" :> "Exceeding posted speed limit"),
             custom |-> FALSE]]

\* ReportTemplates.loadCustomTemplates: a parse error is caught and logged,
\* the stored text stays
loadCustomTemplates(w) ==
  LET customTemplates == w.ls["kyntraCustomTemplates"] IN
  IF IsNull(customTemplates) \/ ParseThrows(customTemplates) THEN w
  ELSE LET custom == JSONparse(customTemplates) IN
       [w EXCEPT !.tpl = [t \in ReportTypes |->
                            IF t \in DOMAIN custom THEN custom[t] @@ @[t]
                            ELSE @[t]]]

\* (a saveCustomTemplates that persists every template of the map)
saveCustomTemplates_all(w) ==
  setItem(w, "kyntraCustomTemplates", JSONstringify(w.tpl))

\* ReportTemplates.saveCustomTemplates: the templates flagged custom, per
\* report type, a type without one left out (the write is taken to succeed)
saveCustomTemplates(w) ==
  LET custom(t) == {n \in DOMAIN w.tpl[t] : w.tpl[t][n].custom}
      customTemplates ==
        [t \in {u \in DOMAIN w.tpl : custom(u) # {}} |->
           [n \in custom(t) |-> w.tpl[t][n]]]
  IN setItem(w, "kyntraCustomTemplates", JSONstringify(customTemplates))

\* the report types of the script that ReportTemplates.templates has no
\* entry for (one of five)
MaplessTypes == {"interview"}

\* ReportTemplates.applyTemplate: templates[reportType][templateName] is a
\* TypeError for a report type without a template map; the merged record is
\* written through document.getElementById, which finds a field of any
\* section
applyTemplate(w, t, templateName) ==
  IF t \notin DOMAIN w.tpl THEN [w EXCEPT !.out.threw = TRUE]
  ELSE IF templateName \notin DOMAIN w.tpl[t] THEN w
  ELSE LET template == w.tpl[t][templateName]
           currentData == getFormData(w.dom, t)
           mergedData == template.data @@ currentData.f
           w1 == clearForm(w, t)
           w2 == [w1 EXCEPT !.dom.sec =
                    [s \in ReportTypes |->
                       [k \in FieldSet(s) |->
                          IF k \in DOMAIN mergedData THEN mergedData[k]
                          ELSE @[s][k]]]]
       IN markDirty(w2)

\* the loop of saveAsTemplate calls formData[key].trim() on every truthy
\* value: a string has the method; true and an array (also an empty one,
\* which is truthy) have none, and the call is a TypeError
TrimThrows(formData) ==
  \E i \in 1..Len(formData.keys) :
    LET key == formData.keys[i] IN
    \/ key \in {"officers", "suspects"}
    \/ key \in CheckboxIds /\ formData.f[key]

\* ReportTemplates.saveAsTemplate; templateName is the answer to prompt(),
\* "" for none
saveAsTemplate(w, t, templateName) ==
  IF templateName = "" THEN w
  ELSE LET formData == getFormData(w.dom, t) IN
       IF TrimThrows(formData) THEN [w EXCEPT !.out.threw = TRUE]
       ELSE LET kept == {k \in DOMAIN formData.f :
                           /\ k \notin CheckboxIds
                           /\ ~IsBlank(formData.f[k])}
                templateData == [k \in kept |-> formData.f[k]]
            IN IF kept = {} THEN [w EXCEPT !.out.status = "warning"]
               ELSE LET template == [description |-> "Custom template",
                                     data |-> templateData,
                                     custom |-> TRUE]
                        w1 == [w EXCEPT !.tpl[t] = (templateName :> template) @@ @]
                    IN [saveCustomTemplates(w1) EXCEPT !.out.status = "success"]

\* (a deleteTemplate that refuses a template not flagged custom)
deleteTemplate_guarded(w, t, templateName) ==
  IF ~w.confirm THEN w
  ELSE IF t \notin DOMAIN w.tpl THEN [w EXCEPT !.out.threw = TRUE]
  ELSE IF templateName \in DOMAIN w.tpl[t] /\ ~w.tpl[t][templateName].custom
  THEN w
  ELSE LET w1 == [w EXCEPT !.tpl[t] =
                    [n \in DOMAIN @ \ {templateName} |-> @[n]]]
       IN [saveCustomTemplates(w1) EXCEPT !.out.status = "success"]

\* (a deleteTemplate that does not persist the overlay)
deleteTemplate_memoryOnly(w, t, templateName) ==
  IF ~w.confirm THEN w
  ELSE IF t \notin DOMAIN w.tpl THEN [w EXCEPT !.out.threw = TRUE]
  ELSE [w EXCEPT !.tpl[t] = [n \in DOMAIN @ \ {templateName} |-> @[n]],
                 !.out.status = "success"]

\* ReportTemplates.deleteTemplate: delete templates[reportType][templateName]
\* removes any key, and is a TypeError for a report type without a map
deleteTemplate(w, t, templateName) ==
  IF ~w.confirm THEN w
  ELSE IF t \notin DOMAIN w.tpl THEN [w EXCEPT !.out.threw = TRUE]
  ELSE LET w1 == [w EXCEPT !.tpl[t] =
                    [n \in DOMAIN @ \ {templateName} |-> @[n]]]
       IN [saveCustomTemplates(w1) EXCEPT !.out.status = "success"]

-----------------------------------------------------------------------------
(* ReportAnalytics                                                         *)

\* ReportAnalytics.saveReportHistory: a failed write is caught and logged
saveReportHistory(w) ==
  IF w.writeOK
  THEN setItem(w, "kyntraReportHistory", JSONstringify(w.app.generatedReports))
  ELSE w

\* ReportAnalytics.loadReportHistory
loadReportHistory(w) ==
  LET saved == w.ls["kyntraReportHistory"] IN
  IF IsNull(saved) THEN w
  ELSE IF ParseThrows(saved) THEN [w EXCEPT !.app.generatedReports = <<>>]
  ELSE [w EXCEPT !.app.generatedReports = JSONparse(saved)]

\* ReportAnalytics.updateStatistics
updateStatistics(w) == saveReportHistory(w)

\* ReportAnalytics.init: updateStatistics persists the history again
ReportAnalytics_init(w) == updateStatistics(loadReportHistory(w))

\* a faulty clearHistory that empties the history whatever the answer
clearHistory_unasked(w) ==
  [saveReportHistory([w EXCEPT !.app.generatedReports = <<>>])
     EXCEPT !.out.status = "success"]

\* ReportAnalytics.clearHistory
clearHistory(w) ==
  IF ~w.confirm THEN w
  ELSE [saveReportHistory([w EXCEPT !.app.generatedReports = <<>>])
          EXCEPT !.out.status = "success"]

\* ReportAnalytics.exportHistory: the file download is fire-and-forget
\* (an export that does not look at the length of the history)
exportHistory_unguarded(w, format) ==
  [w EXCEPT !.out.downloads = @ + 1, !.out.status = "success"]

exportHistory(w, format) ==
  IF Len(w.app.generatedReports) = 0
  THEN [w EXCEPT !.out.status = "warning"]
  ELSE [w EXCEPT !.out.downloads = @ + 1, !.out.status = "success"]

\* ReportAnalytics.viewReport: the first entry with the timestamp is shown
\* after the form of its type is repopulated from AppState.formData
\* (a view that refreshes the viewed entry from the form)
viewReport_reextracts(w, timestamp) ==
  LET reports == w.app.generatedReports
      found == {i \in 1..Len(reports) : reports[i].timestamp = timestamp}
  IN IF found = {} THEN w
     ELSE LET first == CHOOSE i \in found : \A j \in found : i <= j
              report == reports[first]
              w1 == switchReport(w, report.type)
          IN IF w1.out.threw THEN w1
             ELSE [populateForm(w1, report.type)
                     EXCEPT !.out.report = report.content,
                            !.out.status = "success",
                            !.app.generatedReports[first].formData =
                               getFormData(w1.dom, report.type)]

viewReport(w, timestamp) ==
  LET reports == w.app.generatedReports
      found == {i \in 1..Len(reports) : reports[i].timestamp = timestamp}
  IN IF found = {} THEN w
     ELSE LET report == reports[CHOOSE i \in found : \A j \in found : i <= j]
              w1 == switchReport(w, report.type)
          IN IF w1.out.threw THEN w1
             ELSE [populateForm(w1, report.type)
                     EXCEPT !.out.report = report.content,
                            !.out.status = "success"]

-----------------------------------------------------------------------------
(* SmartValidation and ReportGenerator                                     *)

\* SmartValidation.rules.required
required(value) == value # "" /\ ~IsBlank(value)

\* the string of a sequence of characters
RECURSIVE Text(_)
Text(cs) == IF cs = <<>> THEN "" ELSE Head(cs) \o Text(Tail(cs))

\* a report text of 120 characters with a line break among the first
\* hundred and one after them
LongContent == [i \in 1..120 |-> IF i \in {10, 110} THEN "\n" ELSE "x"]

LongText == Text(LongContent)

\* the characters of the field ids and of the values the rules take apart
Chars(key) ==
  CASE key = "" -> <<>>
    [] key = "a\nb" -> <<"a", "\n", "b">>
    [] key = LongText -> LongContent
    [] key = " " -> <<" ">>
    [] key = "x" -> <<"x">>
    [] key = "CID-4821-SO" ->
         <<"C", "I", "D", "-", "4", "8", "2", "1", "-", "S", "O">>
    [] key = "CID-7-SO" -> <<"C", "I", "D", "-", "7", "-", "S", "O">>
    [] key = "CID-abc-SO" ->
         <<"C", "I", "D", "-", "a", "b", "c", "-", "S", "O">>
    [] key = "CID--SO" -> <<"C", "I", "D", "-", "-", "S", "O">>
    [] key = "XCID-7-SO" -> <<"X", "C", "I", "D", "-", "7", "-", "S", "O">>
    [] key = "CID-7-SOX" -> <<"C", "I", "D", "-", "7", "-", "S", "O", "X">>
    [] key = "CID-7-SO\n" -> <<"C", "I", "D", "-", "7", "-", "S", "O", "\n">>
    [] key = "arrest" -> <<"a", "r", "r", "e", "s", "t">>
    [] key = "citation" -> <<"c", "i", "t", "a", "t", "i", "o", "n">>
    [] key = "arrestLocation" ->
         <<"a", "r", "r", "e", "s", "t", "L", "o", "c", "a", "t", "i", "o", "n">>
    [] key = "arrestDateTime" ->
         <<"a", "r", "r", "e", "s", "t", "D", "a", "t", "e", "T", "i", "m", "e">>
    [] key = "violations" ->
         <<"v", "i", "o", "l", "a", "t", "i", "o", "n", "s">>
    [] key = "mirandaRead" ->
         <<"m", "i", "r", "a", "n", "d", "a", "R", "e", "a", "d">>

LowerCase ==
  <<"a", "b", "c", "d", "e", "f", "g", "h", "i", "j", "k", "l", "m",
    "n", "o", "p", "q", "r", "s", "t", "u", "v", "w", "x", "y", "z">>
UpperCase ==
  <<"A", "B", "C", "D", "E", "F", "G", "H", "I", "J", "K", "L", "M",
    "N", "O", "P", "Q", "R", "S", "T", "U", "V", "W", "X", "Y", "Z">>

\* [A-Z]
IsUpperCase(c) == \E i \in 1..Len(UpperCase) : UpperCase[i] = c

\* String.prototype.toUpperCase on one character
toUpperCase(c) ==
  IF \E i \in 1..Len(LowerCase) : LowerCase[i] = c
  THEN UpperCase[CHOOSE i \in 1..Len(LowerCase) : LowerCase[i] = c]
  ELSE c

\* .replace(/([A-Z])/g, ' $1')
RECURSIVE SpaceCapitals(_)
SpaceCapitals(cs) ==
  IF cs = <<>> THEN <<>>
  ELSE (IF IsUpperCase(Head(cs)) THEN <<" ", Head(cs)>> ELSE <<Head(cs)>>)
       \o SpaceCapitals(Tail(cs))

\* .replace(/^./, str => str.toUpperCase())
CapitalizeFirst(cs) ==
  IF cs = <<>> THEN cs ELSE <<toUpperCase(Head(cs))>> \o Tail(cs)

\* .trim()
RECURSIVE trimStart(_)
trimStart(cs) ==
  IF cs # <<>> /\ Head(cs) = " " THEN trimStart(Tail(cs)) ELSE cs

RECURSIVE trimEnd(_)
trimEnd(cs) ==
  IF cs # <<>> /\ cs[Len(cs)] = " "
  THEN trimEnd(SubSeq(cs, 1, Len(cs) - 1)) ELSE cs

trim(cs) == trimEnd(trimStart(cs))

\* \d
Digits == {"0", "1", "2", "3", "4", "5", "6", "7", "8", "9"}

\* (a case-number test without the end anchor)
caseNumber_unanchored(value) ==
  LET cs == Chars(value) IN
  \E n \in 8..Len(cs) :
    /\ SubSeq(cs, 1, 4) = <<"C", "I", "D", "-">>
    /\ \A i \in 5..(n - 3) : cs[i] \in Digits
    /\ SubSeq(cs, n - 2, n) = <<"-", "S", "O">>

\* SmartValidation.rules.caseNumber, /^CID-\d+-SO$/.test(value): 'CID-' at
\* the start, '-SO' at the end of the input, one or more digits between
caseNumber(value) ==
  LET cs == Chars(value)
      n == Len(cs)
  IN /\ n >= 8
     /\ SubSeq(cs, 1, 4) = <<"C", "I", "D", "-">>
     /\ \A i \in 5..(n - 3) : cs[i] \in Digits
     /\ SubSeq(cs, n - 2, n) = <<"-", "S", "O">>

\* the number a minlength attribute converts to in a comparison
Number(text) == IF text = "3" THEN 3 ELSE 0

\* SmartValidation.rules.minLength
minLength(value, min) == value # "" /\ Len(Chars(value)) >= Number(min)

\* the pattern attribute of a case-number field
CaseNumberPattern == "CID-\\d+-SO"

\* SmartValidation.rules.pattern, new RegExp(pattern).test(value): the
\* pattern has no anchor, so the test searches the value for a match; the
\* model knows the pattern of the case-number fields
pattern(value, source) ==
  LET cs == Chars(value) IN
  /\ source = CaseNumberPattern
  /\ \E a \in 1..Len(cs), b \in 1..Len(cs) :
       /\ b >= a + 7
       /\ SubSeq(cs, a, a + 3) = <<"C", "I", "D", "-">>
       /\ \A i \in (a + 4)..(b - 3) : cs[i] \in Digits
       /\ SubSeq(cs, b - 2, b) = <<"-", "S", "O">>

\* the rule types of SmartValidation.rules that the model carries
RuleTypes == {"required", "caseNumber", "minLength", "pattern"}

\* SmartValidation.messages: the text before the placeholder, the
\* placeholder ("" for none) and the text after it
messages(type) ==
  CASE type = "required" -> <<"This field is required", "", "">>
    [] type = "caseNumber" -> <<"Must be in format: CID-ReportNumber-SO", "", "">>
    [] type = "minLength" -> <<"Must be at least ", "{min}", " characters">>
    [] type = "pattern" -> <<"Please match the required format", "", "">>

\* SmartValidation.applyRule: a type without a rule function is valid; the
\* placeholder of the message is replaced by rule.value when that is truthy
applyRule(value, rule) ==
  IF rule.type \notin RuleTypes THEN [isValid |-> TRUE, message |-> ""]
  ELSE LET isValid ==
             CASE rule.type = "required" -> required(value)
               [] rule.type = "caseNumber" -> caseNumber(value)
               [] rule.type = "minLength" -> minLength(value, rule.value)
               [] rule.type = "pattern" -> pattern(value, rule.value)
           message == messages(rule.type)
           finalMessage ==
             message[1]
             \o (IF message[2] # "" /\ rule.value # "" THEN rule.value
                 ELSE message[2])
             \o message[3]
       IN [isValid |-> isValid, message |-> finalMessage]

\* (a loop that stops at the first rule that fails)
RECURSIVE runRules_firstFailure(_, _, _)
runRules_firstFailure(value, rules, result) ==
  IF rules = <<>> \/ ~result.isValid THEN result
  ELSE LET ruleResult == applyRule(value, Head(rules)) IN
       runRules_firstFailure(value, Tail(rules),
                IF ~ruleResult.isValid
                THEN [result EXCEPT !.isValid = FALSE,
                                    !.errors = Append(@, ruleResult.message)]
                ELSE result)

\* for (const rule of validation.rules), on the rules still to run
RECURSIVE runRules(_, _, _)
runRules(value, rules, result) ==
  IF rules = <<>> THEN result
  ELSE LET ruleResult == applyRule(value, Head(rules)) IN
       runRules(value, Tail(rules),
                IF ~ruleResult.isValid
                THEN [result EXCEPT !.isValid = FALSE,
                                    !.errors = Append(@, ruleResult.message)]
                ELSE result)

\* SmartValidation.runValidation
runValidation(value, validation) ==
  runRules(value, validation.rules,
           [isValid |-> TRUE, errors |-> <<>>, warnings |-> <<>>])

\* SmartValidation.getFieldValidation, for a field given by its attributes:
\* required is the required or the data-essential attribute, pattern the
\* pattern attribute ("" for none); the fields of the model carry no
\* data-validation, minlength, maxlength or data-error attribute
getFieldValidation(field) ==
  [rules |->
     (IF field.required THEN <<[type |-> "required", value |-> ""]>> ELSE <<>>)
     \o (IF field.pattern # ""
         THEN <<[type |-> "pattern", value |-> field.pattern]>> ELSE <<>>)]

\* SmartValidation.validateField: updateFieldUI gives the field the class
\* invalid when the result has errors
validateField(field) ==
  runValidation(field.value, getFieldValidation(field)).isValid

\* (a loop that stops validating at the first field that fails)
RECURSIVE forEachField_stops(_, _, _)
forEachField_stops(fields, i, result) ==
  IF i > Len(fields) \/ ~result.isValid THEN result
  ELSE LET fieldValid == validateField(fields[i]) IN
       forEachField_stops(fields, i + 1,
         [isValid |-> result.isValid /\ fieldValid,
          firstInvalidField |->
            IF ~fieldValid /\ result.firstInvalidField = 0 THEN i
            ELSE result.firstInvalidField,
          invalid |-> IF fieldValid THEN result.invalid
                      ELSE result.invalid \cup {i}])

\* fields.forEach of SmartValidation.validateForm, from the i-th field on
RECURSIVE forEachField(_, _, _)
forEachField(fields, i, result) ==
  IF i > Len(fields) THEN result
  ELSE LET fieldValid == validateField(fields[i]) IN
       forEachField(fields, i + 1,
         [isValid |-> result.isValid /\ fieldValid,
          firstInvalidField |->
            IF ~fieldValid /\ result.firstInvalidField = 0 THEN i
            ELSE result.firstInvalidField,
          invalid |-> IF fieldValid THEN result.invalid
                      ELSE result.invalid \cup {i}])

\* SmartValidation.validateForm on the fields of a section that exists
validateSection(fields) ==
  forEachField(fields, 1,
               [isValid |-> TRUE, firstInvalidField |-> 0, invalid |-> {}])

\* section.querySelectorAll('input, textarea, select') with the attributes
\* of each field
SectionNodes(d, t) ==
  [i \in 1..Len(SectionFields(t)) |->
     LET k == SectionFields(t)[i] IN
     [id |-> k, value |-> d.sec[t][k], required |-> k \in EssentialFields(t),
      pattern |-> ""]]

\* SmartValidation.validateForm: false without a section; every field of the
\* section is validated against the rules its attributes give it
validateForm(d, t) ==
  IF t \notin DOMAIN d.sec THEN FALSE
  ELSE validateSection(SectionNodes(d, t)).isValid

\* \w
IsWordChar(c) ==
  \/ \E i \in 1..Len(LowerCase) : LowerCase[i] = c \/ UpperCase[i] = c
  \/ c \in Digits
  \/ c = "_"

\* .replace('-', ' '): the first hyphen only
RECURSIVE ReplaceHyphen(_)
ReplaceHyphen(cs) ==
  IF cs = <<>> THEN <<>>
  ELSE IF Head(cs) = "-" THEN <<" ">> \o Tail(cs)
  ELSE <<Head(cs)>> \o ReplaceHyphen(Tail(cs))

\* .replace(/\b\w/g, l => l.toUpperCase()): every word character that
\* starts a word
CapitalizeWords(cs) ==
  [i \in 1..Len(cs) |->
     IF IsWordChar(cs[i]) /\ (i = 1 \/ ~IsWordChar(cs[i - 1]))
     THEN toUpperCase(cs[i]) ELSE cs[i]]

\* type.replace('-', ' ').replace(/\b\w/g, l => l.toUpperCase()), per type
TypeLabels ==
  [t \in ReportTypes |->
     CHOOSE label \in
       {Text(capitalized) : capitalized \in
         {CapitalizeWords(replaced) : replaced \in
           {ReplaceHyphen(chars) : chars \in {Chars(t)}}}} : TRUE]

\* reports.forEach of calculateStatistics: typeDistribution as its keys in
\* insertion order and the count of each
RECURSIVE countTypes(_, _, _)
countTypes(reports, i, dist) ==
  IF i > Len(reports) THEN dist
  ELSE LET type == reports[i].type IN
       countTypes(reports, i + 1,
         IF type \in DOMAIN dist.count
         THEN [dist EXCEPT !.count[type] = @ + 1]
         ELSE [keys |-> Append(dist.keys, type),
               count |-> (type :> 1) @@ dist.count])

\* (a search that lets a later type of equal count win)
RECURSIVE findMostUsed_lastWins(_, _, _, _)
findMostUsed_lastWins(dist, i, maxCount, mostUsedType) ==
  IF i > Len(dist.keys) THEN mostUsedType
  ELSE LET type == dist.keys[i]
           count == dist.count[type]
       IN IF count >= maxCount
          THEN findMostUsed_lastWins(dist, i + 1, count, TypeLabels[type])
          ELSE findMostUsed_lastWins(dist, i + 1, maxCount, mostUsedType)

\* Object.entries(stats.typeDistribution).forEach of calculateStatistics
RECURSIVE findMostUsed(_, _, _, _)
findMostUsed(dist, i, maxCount, mostUsedType) ==
  IF i > Len(dist.keys) THEN mostUsedType
  ELSE LET type == dist.keys[i]
           count == dist.count[type]
       IN IF count > maxCount
          THEN findMostUsed(dist, i + 1, count, TypeLabels[type])
          ELSE findMostUsed(dist, i + 1, maxCount, mostUsedType)

\* ReportAnalytics.calculateStatistics; clock is new Date(). The 30 days are
\* subtracted as two halves, each of which the model's integers can hold.
calculateStatistics(reports, clock) ==
  LET oneWeekAgo == clock - 7 * 24 * HourMs
      oneMonthAgo == (clock - 15 * 24 * HourMs) - 15 * 24 * HourMs
      typeDistribution ==
        countTypes(reports, 1, [keys |-> <<>>, count |-> <<>>])
  IN [total |-> Len(reports),
      thisWeek |->
        Len(SelectSeq(reports, LAMBDA r : getTime(r.timestamp) >= oneWeekAgo)),
      thisMonth |->
        Len(SelectSeq(reports, LAMBDA r : getTime(r.timestamp) >= oneMonthAgo)),
      typeDistribution |-> typeDistribution,
      mostUsedType |-> findMostUsed(typeDistribution, 1, 0, "None")]

\* report.timestamp as the text toISOString gave, for the days of the
\* model's histories
TimestampChars(timestamp) ==
  (CASE getTime(timestamp) = 20 * 24 * HourMs ->
          <<"1", "9", "7", "0", "-", "0", "1", "-", "2", "1">>
     [] getTime(timestamp) = 12 * 24 * HourMs ->
          <<"1", "9", "7", "0", "-", "0", "1", "-", "1", "3">>
     [] getTime(timestamp) = (0 - 11) * 24 * HourMs ->
          <<"1", "9", "6", "9", "-", "1", "2", "-", "2", "1">>)
  \o <<"T", "0", "0", ":", "0", "0", ":", "0", "0", ".", "0", "0", "0", "Z">>

\* content.substring(0, n)
substring(cs, n) == SubSeq(cs, 1, IF Len(cs) < n THEN Len(cs) ELSE n)

\* .replace(/\n/g, ' ')
RECURSIVE ReplaceNewlines(_)
ReplaceNewlines(cs) ==
  IF cs = <<>> THEN <<>>
  ELSE <<IF Head(cs) = "\n" THEN " " ELSE Head(cs)>>
         \o ReplaceNewlines(Tail(cs))

\* array.join(separator)
RECURSIVE join(_, _)
join(items, separator) ==
  IF items = <<>> THEN <<>>
  ELSE IF Len(items) = 1 THEN items[1]
  ELSE items[1] \o separator \o join(Tail(items), separator)

\* (a row whose preview keeps the line breaks of the content)
csvRow_raw(report) ==
  <<TimestampChars(report.timestamp),
    Chars(report.type),
    substring(Chars(report.content), 100) \o <<".", ".", ".">>>>

\* report => [report.timestamp, report.type, preview] of generateCSV
csvRow(report) ==
  <<TimestampChars(report.timestamp),
    Chars(report.type),
    ReplaceNewlines(substring(Chars(report.content), 100))
      \o <<".", ".", ".">>>>

\* 'Timestamp,Type,Content Preview' as its three headers
CSVHeaders ==
  <<<<"T", "i", "m", "e", "s", "t", "a", "m", "p">>,
    <<"T", "y", "p", "e">>,
    <<"C", "o", "n", "t", "e", "n", "t", " ", "P", "r", "e", "v", "i", "e", "w">>>>

\* ReportAnalytics.generateCSV
generateCSV(reports) ==
  join(<<join(CSVHeaders, <<",">>)>>
         \o [i \in 1..Len(reports) |->
              join([j \in 1..3 |-> <<"\"">> \o csvRow(reports[i])[j] \o <<"\"">>],
                   <<",">>)],
       <<"\n">>)

\* ReportGenerator.formatLabel: each call of the chain works on the finished
\* result of the call before it
formatLabel(key) ==
  CHOOSE label \in
    {Text(trimmed) : trimmed \in
      {trim(capitalized) : capitalized \in
        {CapitalizeFirst(spaced) : spaced \in
          {SpaceCapitals(chars) : chars \in {Chars(key)}}}}} : TRUE

\* the field ids of the model and their labels
FieldIds == {"arrestLocation", "arrestDateTime", "violations", "mirandaRead"}
Labels == [key \in FieldIds |-> formatLabel(key)]

\* the headers table of ReportGenerator.buildReport
headers(t) == IF t = "arrest" THEN "ARREST REPORT" ELSE "CITATION REPORT"

\* String.prototype.repeat
RECURSIVE repeat(_, _)
repeat(str, n) == IF n = 0 THEN "" ELSE str \o repeat(str, n - 1)

\* '='.repeat(50)
Rule == repeat("=", 50)

\* (a truthiness test that lets every value through)
IsTruthy_always(key, value) == TRUE

\* the truthiness of a value of the record: false and '' are falsy
IsTruthy(key, value) == IF key \in CheckboxIds THEN value ELSE value # ""

\* the text a template literal makes of a value of the record
String(key, value) ==
  IF key \in CheckboxIds THEN (IF value THEN "true" ELSE "false") ELSE value

\* the forEach over Object.keys(formData), on the keys from the i-th on
RECURSIVE FieldBlocks(_, _)
FieldBlocks(formData, i) ==
  IF i > Len(formData.keys) THEN ""
  ELSE LET key == formData.keys[i] IN
       (IF key # "officers" /\ key # "suspects"
           /\ IsTruthy(key, formData.f[key])
        THEN Labels[key] \o ":\n" \o String(key, formData.f[key]) \o "\n\n"
        ELSE "")
       \o FieldBlocks(formData, i + 1)

\* formData.officers.forEach, on the officers from the i-th on
RECURSIVE OfficerLines(_, _)
OfficerLines(officers, i) ==
  IF i > Len(officers) THEN ""
  ELSE ToString(i) \o ". " \o officers[i] \o "\n"
       \o OfficerLines(officers, i + 1)

\* (a suspects loop that prints the ID part for every suspect)
RECURSIVE SuspectLines_alwaysId(_, _)
SuspectLines_alwaysId(suspects, i) ==
  IF i > Len(suspects) THEN ""
  ELSE LET suspect == suspects[i] IN
       ToString(i) \o ". "
       \o (IF suspect.name # "" THEN suspect.name ELSE "Unknown")
       \o " (ID: " \o suspect.id \o ")"
       \o (IF suspect.charges # ""
           THEN "\n   Charges: " \o suspect.charges ELSE "")
       \o "\n"
       \o SuspectLines_alwaysId(suspects, i + 1)

\* formData.suspects.forEach, on the suspects from the i-th on
RECURSIVE SuspectLines(_, _)
SuspectLines(suspects, i) ==
  IF i > Len(suspects) THEN ""
  ELSE LET suspect == suspects[i] IN
       ToString(i) \o ". "
       \o (IF suspect.name # "" THEN suspect.name ELSE "Unknown")
       \o (IF suspect.id # "" THEN " (ID: " \o suspect.id \o ")" ELSE "")
       \o (IF suspect.charges # ""
           THEN "\n   Charges: " \o suspect.charges ELSE "")
       \o "\n"
       \o SuspectLines(suspects, i + 1)

\* (a buildReport that numbers the report after the history)
buildReport_numbered(t, formData) ==
  headers(t) \o " " \o ToString(Len(AppState.generatedReports) + 1) \o "\n"
  \o Rule \o "\n\n"
  \o FieldBlocks(formData, 1)
  \o (IF Len(formData.officers) > 0
      THEN "ARRESTING OFFICERS:\n" \o OfficerLines(formData.officers, 1) \o "\n"
      ELSE "")
  \o (IF Len(formData.suspects) > 0
      THEN "SUSPECTS:\n" \o SuspectLines(formData.suspects, 1) \o "\n"
      ELSE "")

\* (a buildReport that puts the suspects before the officers)
buildReport_suspectsFirst(t, formData) ==
  headers(t) \o "\n" \o Rule \o "\n\n"
  \o FieldBlocks(formData, 1)
  \o (IF Len(formData.suspects) > 0
      THEN "SUSPECTS:\n" \o SuspectLines(formData.suspects, 1) \o "\n"
      ELSE "")
  \o (IF Len(formData.officers) > 0
      THEN "ARRESTING OFFICERS:\n" \o OfficerLines(formData.officers, 1) \o "\n"
      ELSE "")

\* ReportGenerator.buildReport
buildReport(t, formData) ==
  headers(t) \o "\n" \o Rule \o "\n\n"
  \o FieldBlocks(formData, 1)
  \o (IF Len(formData.officers) > 0
      THEN "ARRESTING OFFICERS:\n" \o OfficerLines(formData.officers, 1) \o "\n"
      ELSE "")
  \o (IF Len(formData.suspects) > 0
      THEN "SUSPECTS:\n" \o SuspectLines(formData.suspects, 1) \o "\n"
      ELSE "")

\* (a generate that skips the validation)
generate_unvalidated(w, t) ==
  LET formData == getFormData(w.dom, t)
      report == buildReport(t, formData)
      w1 == [w EXCEPT !.out.report = report,
                      !.app.generatedReports =
                         Append(@, [type |-> t, content |-> report,
                                    timestamp |-> toISOString(w.now),
                                    formData |-> formData])]
  IN [updateStatistics(saveReportHistory(w1))
        EXCEPT !.out.status = "success"]

\* (a generate that puts the new entry first)
generate_unshift(w, t) ==
  IF ~validateForm(w.dom, t)
  THEN [w EXCEPT !.out.status = "error"]
  ELSE LET formData == getFormData(w.dom, t)
           report == buildReport(t, formData)
           w1 == [w EXCEPT !.out.report = report,
                           !.app.generatedReports =
                              <<[type |-> t, content |-> report,
                                 timestamp |-> toISOString(w.now),
                                 formData |-> formData]>> \o @]
       IN [updateStatistics(saveReportHistory(w1))
             EXCEPT !.out.status = "success"]

\* ReportGenerator.generate
generate(w, t) ==
  IF ~validateForm(w.dom, t)
  THEN [w EXCEPT !.out.status = "error"]
  ELSE LET formData == getFormData(w.dom, t)
           report == buildReport(t, formData)
           w1 == [w EXCEPT !.out.report = report,
                           !.app.generatedReports =
                              Append(@, [type |-> t, content |-> report,
                                         timestamp |-> toISOString(w.now),
                                         formData |-> formData])]
       IN [updateStatistics(saveReportHistory(w1))
             EXCEPT !.out.status = "success"]

-----------------------------------------------------------------------------
(* App                                                                     *)

\* App.init: the components in order, then the stored form data, then the
\* default report; an error out of loadFormData ends it
App_init(w) ==
  LET w1 == AutoSave_init(w)
      w2 == loadCustomTemplates(w1)
      w3 == ReportAnalytics_init(w2)
      w4 == loadFormData(w3, w3.app.currentReport)
  IN IF w4.out.threw THEN w4 ELSE switchReport(w4, DefaultReport)

-----------------------------------------------------------------------------
(* The state machine                                                       *)

\* the state a handler leaves behind
Commit(w) ==
  /\ AppState' = w.app
  /\ localStorage' = w.ls
  /\ dom' = w.dom
  /\ templates' = w.tpl
  /\ intervals' = w.iv
  /\ nextTimerId' = w.nextId
  /\ out' = w.out

\* a page that is not loaded holds no script state
Unloaded ==
  /\ AppState = InitialAppState
  /\ dom = InitialDom
  /\ templates = BuiltinTemplates
  /\ intervals = {}
  /\ nextTimerId = 1
  /\ debounce = FALSE

Init ==
  /\ Unloaded
  /\ localStorage = [k \in StorageKeys |-> Absent]
  /\ phase = "closed"
  /\ now = 0
  /\ out = Quiet

\* DOMContentLoaded: App.init runs; confirm is the user's answer should the
\* recovery prompt appear
PageLoadWith(confirm) ==
  /\ phase = "closed"
  /\ Commit(App_init(World(confirm, TRUE)))
  /\ phase' = "running"
  /\ UNCHANGED <<debounce, now>>

PageLoad == \E confirm \in BOOLEAN : PageLoadWith(confirm)

\* the user edits a field of the visible section: the input event arms the
\* debounced save of FormManager.init
InputEvent ==
  /\ phase = "running"
  /\ \E k \in FieldSet(dom.active), v \in TypedValues :
       /\ v # dom.sec[dom.active][k]
       /\ dom' = [dom EXCEPT !.sec[dom.active][k] = v]
  /\ debounce' = TRUE
  /\ out' = Quiet
  /\ UNCHANGED <<AppState, localStorage, templates, intervals, nextTimerId,
                 phase, now>>

\* the debounce delay has passed since the last input or change event
DebouncedSave ==
  /\ phase = "running"
  /\ debounce
  /\ Commit(saveFormData(World(FALSE, TRUE)))
  /\ debounce' = FALSE
  /\ UNCHANGED <<phase, now>>

\* what the suspects group can hold once the user has added, removed and
\* filled items: the blank item of the served page; or an item with charges
\* but no name and a whitespace id, between a named suspect and one with a
\* whitespace name and an id
BlankSuspect == [name |-> "", id |-> "", charges |-> ""]
NamedSuspect == [name |-> "J. Doe", id |-> "", charges |-> "Trespassing"]
NumberedSuspect == [name |-> " ", id |-> "7", charges |-> ""]
ChargesOnly == [name |-> "", id |-> " ", charges |-> "Trespassing"]

SuspectGroups ==
  {<<BlankSuspect>>, <<NamedSuspect, ChargesOnly, NumberedSuspect>>}

\* the user works on the suspects group (DynamicFields.addSuspect,
\* DynamicFields.removeField, typing): the inputs fire input events, which
\* arm the debounced save
SuspectInput ==
  /\ phase = "running"
  /\ \E group \in SuspectGroups :
       /\ group # dom.suspects
       /\ dom' = [dom EXCEPT !.suspects = group]
  /\ debounce' = TRUE
  /\ out' = Quiet
  /\ UNCHANGED <<AppState, localStorage, templates, intervals, nextTimerId,
                 phase, now>>

\* Ctrl/Cmd + S
SaveShortcut ==
  /\ phase = "running"
  /\ Commit(saveFormData(World(FALSE, TRUE)))
  /\ UNCHANGED <<debounce, phase, now>>

\* a click on a navigation button
NavClickTo(t) ==
  /\ phase = "running"
  /\ Commit(switchReport(World(FALSE, TRUE), t))
  /\ UNCHANGED <<debounce, phase, now>>

NavClick == \E t \in ReportTypes : NavClickTo(t)

\* applyTemplate on the visible section, with a template of that section or
\* with a name that is no template
ApplyTemplateNamed(name) ==
  /\ phase = "running"
  /\ Commit(applyTemplate(World(FALSE, TRUE), dom.active, name))
  /\ UNCHANGED <<debounce, phase, now>>

ApplyTemplate ==
  \E name \in DOMAIN templates[dom.active] \cup {"No such template"} :
    ApplyTemplateNamed(name)

\* a custom template as saveAsTemplate builds it
CustomTemplate(key, value) ==
  [description |-> "Custom template", data |-> (key :> value), custom |-> TRUE]

\* custom overlays left in storage by earlier sessions: a template of the
\* user's own for each type and one under the name of a built-in; a single
\* template
StoredOverlays ==
  {("arrest" :> ("My Stop" :> CustomTemplate("arrestLocation", "5th & Main")
                 @@ "DUI Arrest" :> CustomTemplate("arrestLocation", "Elm St")))
   @@ ("citation" :> ("My Stop" :> CustomTemplate("violations", "Red light"))),
   "arrest" :> ("My Stop" :> CustomTemplate("arrestLocation", "5th & Main"))}

\* the page is opened on a browser whose storage holds a custom overlay
StoredOverlay ==
  /\ phase = "closed"
  /\ \E overlay \in StoredOverlays :
       /\ localStorage["kyntraCustomTemplates"] # JSONstringify(overlay)
       /\ localStorage' = [localStorage EXCEPT
                             !["kyntraCustomTemplates"] = JSONstringify(overlay)]
  /\ UNCHANGED <<AppState, dom, templates, intervals, nextTimerId, debounce,
                 phase, now, out>>

\* the names the template operations are called with
TemplateNames == {"DUI Arrest", "Speeding", "My Stop", "No such template"}

\* ReportTemplates.applyTemplate(reportType, templateName) called directly
ApplyTemplateTo(t, name) ==
  /\ phase = "running"
  /\ Commit(applyTemplate(World(FALSE, TRUE), t, name))
  /\ UNCHANGED <<debounce, phase, now>>

ApplyTemplateCall ==
  \E t \in ReportTypes \cup MaplessTypes, name \in TemplateNames :
    ApplyTemplateTo(t, name)

\* the Save as Template button of the visible section; name is the answer to
\* the prompt
SaveAsTemplateNamed(name) ==
  /\ phase = "running"
  /\ Commit(saveAsTemplate(World(FALSE, TRUE), dom.active, name))
  /\ UNCHANGED <<debounce, phase, now>>

SaveAsTemplate == \E name \in {"", "My Stop"} : SaveAsTemplateNamed(name)

\* ReportTemplates.deleteTemplate(reportType, templateName) called directly;
\* confirm is the user's answer
DeleteTemplateOf(t, name, confirm) ==
  /\ phase = "running"
  /\ Commit(deleteTemplate(World(confirm, TRUE), t, name))
  /\ UNCHANGED <<debounce, phase, now>>

DeleteTemplate ==
  \E t \in ReportTypes \cup MaplessTypes, name \in TemplateNames,
     confirm \in BOOLEAN :
    DeleteTemplateOf(t, name, confirm)

\* the values runValidation is called with: empty, one space, one letter,
\* case numbers and near misses
ValidationValues ==
  {"", " ", "x", "CID-4821-SO", "CID-7-SO", "CID-abc-SO", "CID--SO",
   "XCID-7-SO", "CID-7-SOX", "CID-7-SO\n"}

\* the rules getFieldValidation builds: required, caseNumber and zip (a type
\* with no rule function) from data-validation, the minlength rule
ModelRules ==
  {[type |-> "required", value |-> ""],
   [type |-> "caseNumber", value |-> ""],
   [type |-> "zip", value |-> ""],
   [type |-> "minLength", value |-> "3"]}

\* the rule lists of up to MaxRules rules
RuleLists ==
  UNION {[1..n -> ModelRules] : n \in 0..MaxRules}

\* the result of runValidation for each value and rule list
Results ==
  [value \in ValidationValues, rules \in RuleLists |->
     runValidation(value, [rules |-> rules])]

\* SmartValidation.runValidation(value, validation) called directly
Evaluate(value, rules) ==
  /\ phase = "running"
  /\ out' = [Quiet EXCEPT !.validation =
               [value |-> value, rules |-> rules,
                result |-> Results[value, rules]]]
  /\ UNCHANGED <<AppState, localStorage, dom, templates, intervals,
                 nextTimerId, debounce, phase, now>>

RunValidation ==
  \E value \in ValidationValues, rules \in RuleLists : Evaluate(value, rules)

\* the fields of the sections validateForm is called on: case-number fields
\* (optional, with the pattern attribute) and required fields
CaseNumberField(value) ==
  [id |-> "caseNumber", value |-> value, required |-> FALSE,
   pattern |-> CaseNumberPattern]
RequiredField(value) ==
  [id |-> "arrestLocation", value |-> value, required |-> TRUE, pattern |-> ""]

CaseFieldValues == {"", "CID-7-SO", "CID-abc-SO", "XCID-7-SO"}

ModelFields ==
  {CaseNumberField(v) : v \in CaseFieldValues}
  \cup {RequiredField(v) : v \in {"", "x"}}

\* the sections of up to MaxFields fields
FieldLists == UNION {[1..n -> ModelFields] : n \in 0..MaxFields}

FormResults == [fields \in FieldLists |-> validateSection(fields)]

\* SmartValidation.validateForm(reportType) on a section with these fields
ValidateFormOn(fields) ==
  /\ phase = "running"
  /\ out' = [Quiet EXCEPT !.form =
               [fields |-> fields, result |-> FormResults[fields]]]
  /\ UNCHANGED <<AppState, localStorage, dom, templates, intervals,
                 nextTimerId, debounce, phase, now>>

ValidateForm == \E fields \in FieldLists : ValidateFormOn(fields)

\* the Generate button of the visible section; writeOK says whether
\* localStorage takes the history
GenerateWith(writeOK) ==
  /\ phase = "running"
  /\ Len(AppState.generatedReports) < MaxReports
  /\ Commit(generate(World(FALSE, writeOK), dom.active))
  /\ UNCHANGED <<debounce, phase, now>>

Generate == \E writeOK \in BOOLEAN : GenerateWith(writeOK)

\* the records buildReport is called with directly: the arrest example; two
\* scalar fields, two officers and two suspects, with the keys in one order
\* and in the other; a record with nothing to print; a record with a
\* checkbox, ticked or not, before a field that holds one space
ExampleRecord ==
  [keys |-> <<"arrestLocation", "officers", "suspects">>,
   f |-> [arrestLocation |-> "5th & Main"],
   officers |-> <<"Badge 221">>,
   suspects |-> <<[name |-> "J. Doe", id |-> "", charges |-> "Trespassing"]>>]

FullRecord(keys) ==
  [keys |-> keys \o <<"officers", "suspects">>,
   f |-> [arrestLocation |-> "5th & Main", arrestDateTime |-> "2024-05-01T10:30"],
   officers |-> <<"Badge 221", "Badge 7">>,
   suspects |-> <<[name |-> "", id |-> "A-17", charges |-> ""],
                  [name |-> "J. Doe", id |-> "", charges |-> "Trespassing"]>>]

BareRecord ==
  [keys |-> <<"violations", "officers", "suspects">>, f |-> [violations |-> ""],
   officers |-> <<>>, suspects |-> <<>>]

\* three officers and no scalar value; a suspect with name, id and charges, one
\* with nothing at all, one with an id only
GroupsRecord ==
  [keys |-> <<"violations", "officers", "suspects">>, f |-> [violations |-> ""],
   officers |-> <<"Badge 7", "Badge 221", "Badge 7">>,
   suspects |-> <<[name |-> "J. Doe", id |-> "A-17", charges |-> "Trespassing"],
                  [name |-> "", id |-> "", charges |-> ""],
                  [name |-> "", id |-> "7", charges |-> ""]>>]

\* suspects and no officer
SuspectsOnlyRecord ==
  [keys |-> <<"officers", "suspects">>, f |-> <<>>,
   officers |-> <<>>,
   suspects |-> <<[name |-> "", id |-> "", charges |-> "Trespassing"]>>]

CheckboxRecord(checked) ==
  [keys |-> <<"mirandaRead", "arrestLocation", "officers", "suspects">>,
   f |-> [mirandaRead |-> checked, arrestLocation |-> " "],
   officers |-> <<"Badge 221">>, suspects |-> <<>>]

ComposeRecords ==
  {ExampleRecord, BareRecord,
   FullRecord(<<"arrestLocation", "arrestDateTime">>),
   FullRecord(<<"arrestDateTime", "arrestLocation">>),
   CheckboxRecord(TRUE), CheckboxRecord(FALSE),
   GroupsRecord, SuspectsOnlyRecord}

\* ReportGenerator.buildReport called on its own, as a test of the composer
\* does: the text it returns is all that comes of the call
ComposeOf(t, record) ==
  /\ phase = "running"
  /\ out' = [Quiet EXCEPT !.report = buildReport(t, record)]
  /\ UNCHANGED <<AppState, localStorage, dom, templates, intervals,
                 nextTimerId, debounce, phase, now>>

Compose == \E t \in ReportTypes, record \in ComposeRecords : ComposeOf(t, record)

\* a click on an entry of the dashboard's list of recent reports
ViewReport ==
  /\ phase = "running"
  /\ \E i \in 1..Len(AppState.generatedReports) :
       Commit(viewReport(World(FALSE, TRUE),
                         AppState.generatedReports[i].timestamp))
  /\ UNCHANGED <<debounce, phase, now>>

\* the export buttons of the dashboard
ExportHistory ==
  /\ phase = "running"
  /\ \E format \in {"csv", "json"} :
       Commit(exportHistory(World(FALSE, TRUE), format))
  /\ UNCHANGED <<debounce, phase, now>>

\* the Clear History button of the dashboard; confirm is the user's answer
ClearHistoryWith(confirm, writeOK) ==
  /\ phase = "running"
  /\ Commit(clearHistory(World(confirm, writeOK)))
  /\ UNCHANGED <<debounce, phase, now>>

ClearHistory ==
  \E confirm \in BOOLEAN, writeOK \in BOOLEAN :
    ClearHistoryWith(confirm, writeOK)

\* the Clear button of the visible section
ClearForm ==
  /\ phase = "running"
  /\ Commit(clearForm(World(FALSE, TRUE), dom.active))
  /\ UNCHANGED <<debounce, phase, now>>

\* a live interval timer fires; writeOK says whether localStorage takes the
\* snapshot
TickWith(writeOK) ==
  /\ phase = "running"
  /\ \E id \in intervals : Commit(intervalCallback(World(FALSE, writeOK)))
  /\ UNCHANGED <<debounce, phase, now>>

Tick == \E writeOK \in BOOLEAN : TickWith(writeOK)

\* AutoSave.startAutoSave called on the running page
StartAutoSave ==
  /\ phase = "running"
  /\ nextTimerId <= MaxTimers
  /\ Commit(startAutoSave(World(FALSE, TRUE)))
  /\ UNCHANGED <<debounce, phase, now>>

\* AutoSave.init called again on the running page
AutoSaveInit ==
  /\ phase = "running"
  /\ nextTimerId <= MaxTimers
  /\ \E confirm \in BOOLEAN : Commit(AutoSave_init(World(confirm, TRUE)))
  /\ UNCHANGED <<debounce, phase, now>>

\* AutoSave.stopAutoSave called on the running page
StopAutoSave ==
  /\ phase = "running"
  /\ Commit(stopAutoSave(World(FALSE, TRUE)))
  /\ UNCHANGED <<debounce, phase, now>>

\* the user tries to leave: the beforeunload listener runs
BeforeUnload ==
  /\ phase = "running"
  /\ Commit(handleBeforeUnload(World(FALSE, TRUE)))
  /\ phase' = "unloading"
  /\ UNCHANGED <<debounce, now>>

\* asked for confirmation, the user stays
Stay ==
  /\ phase = "unloading"
  /\ out.prompt
  /\ phase' = "running"
  /\ out' = Quiet
  /\ UNCHANGED <<AppState, localStorage, dom, templates, intervals,
                 nextTimerId, debounce, now>>

\* the page goes away; only localStorage survives
Leave ==
  /\ phase = "unloading"
  /\ phase' = "closed"
  /\ AppState' = InitialAppState
  /\ dom' = InitialDom
  /\ templates' = BuiltinTemplates
  /\ intervals' = {}
  /\ nextTimerId' = 1
  /\ debounce' = FALSE
  /\ out' = Quiet
  /\ UNCHANGED <<localStorage, now>>

\* while the page is closed a stored value is damaged
Tamper ==
  /\ phase = "closed"
  /\ \E k \in StorageKeys : localStorage' = [localStorage EXCEPT ![k] = Corrupt]
  /\ UNCHANGED <<AppState, dom, templates, intervals, nextTimerId, debounce,
                 phase, now, out>>

\* time passes
ClockAdvance ==
  /\ phase = "closed"
  /\ \E t \in Instants : t > now /\ now' = t
  /\ UNCHANGED <<AppState, localStorage, dom, templates, intervals,
                 nextTimerId, debounce, phase, out>>

\* The sessions of the page: loading (with recovery), editing, saving,
\* switching, templates, the auto-save timer, leaving, and between sessions
\* the passing of time and damage to stored values.
Next ==
  \/ PageLoad
  \/ InputEvent
  \/ DebouncedSave
  \/ SaveShortcut
  \/ NavClick
  \/ ApplyTemplate
  \/ ClearForm
  \/ Tick
  \/ BeforeUnload
  \/ Stay
  \/ Leave
  \/ Tamper
  \/ ClockAdvance

Spec == Init /\ [][Next]_vars

\* The auto-save timer under direct calls of startAutoSave and stopAutoSave.
TimerNext ==
  \/ PageLoad
  \/ InputEvent
  \/ DebouncedSave
  \/ SaveShortcut
  \/ NavClick
  \/ Tick
  \/ AutoSaveInit
  \/ StartAutoSave
  \/ StopAutoSave
  \/ BeforeUnload
  \/ Stay
  \/ Leave

TimerSpec == Init /\ [][TimerNext]_vars

\* The same, with the scheduling of setInterval: a timer that stays alive on
\* a page that stays open fires again and again, and with storage that takes
\* the snapshot one of its firings is a firing whose write succeeds.
LiveSpec == Init /\ [][TimerNext]_vars /\ WF_vars(TickWith(TRUE))

\* The report history across sessions: generation with storage that takes
\* the history or refuses it, the dashboard's view, export and clear
\* operations, among typed edits, report switches and restarts.
HistoryNext ==
  \/ PageLoad
  \/ InputEvent
  \/ NavClick
  \/ Generate
  \/ ViewReport
  \/ ExportHistory
  \/ ClearHistory
  \/ BeforeUnload
  \/ Leave

HistorySpec == Init /\ [][HistoryNext]_vars

\* One session of the dashboard: every operation of the running page that
\* takes no typing, with the form edited by applying templates.
DashboardNext ==
  \/ PageLoad
  \/ NavClick
  \/ ApplyTemplate
  \/ SaveShortcut
  \/ Tick
  \/ Generate
  \/ ViewReport
  \/ ExportHistory
  \/ ClearHistory

DashboardSpec == Init /\ [][DashboardNext]_vars

\* The suspects group on its way into the stored records: edits of the group
\* and of the fields, the debounced save, timer firings, generation, and
\* restarts with the recovery prompt.
SuspectsNext ==
  \/ PageLoad
  \/ InputEvent
  \/ SuspectInput
  \/ DebouncedSave
  \/ Tick
  \/ Generate
  \/ BeforeUnload
  \/ Leave

SuspectsSpec == Init /\ [][SuspectsNext]_vars

\* The composer called on its own between the operations that change
\* AppState, the stored values and the history.
ComposeNext ==
  \/ PageLoad
  \/ SaveShortcut
  \/ NavClick
  \/ Generate
  \/ ClearHistory
  \/ Compose

ComposeSpec == Init /\ [][ComposeNext]_vars

\* The program as the template operations see it: stored overlays, edits of
\* the form and of the suspects group, applying, saving and deleting
\* templates, restarts.
TemplateNext ==
  \/ StoredOverlay
  \/ PageLoad
  \/ InputEvent
  \/ SuspectInput
  \/ NavClick
  \/ ApplyTemplateCall
  \/ SaveAsTemplate
  \/ DeleteTemplate
  \/ BeforeUnload
  \/ Leave

TemplateSpec == Init /\ [][TemplateNext]_vars

\* The program as the validation rules see it: page loads, direct calls of
\* runValidation, exits.
ValidationNext ==
  \/ PageLoad
  \/ RunValidation
  \/ BeforeUnload
  \/ Leave

ValidationSpec == Init /\ [][ValidationNext]_vars

\* The program as the form validation sees it: page loads, typing, calls of
\* validateForm, exits.
FormNext ==
  \/ PageLoad
  \/ InputEvent
  \/ ValidateForm
  \/ BeforeUnload
  \/ Leave

FormSpec == Init /\ [][FormNext]_vars

\* the instant the analytics are called at: the twentieth day
StatsClock == 20 * 24 * HourMs

\* the entries of the histories the analytics are called on, each made on
\* a day: the day of the call, 8 days before it (day 12) and 31 days before
\* it (day -11)
SampleEntry(type, day, content) ==
  [type |-> type, content |-> content,
   timestamp |-> toISOString(day * 24 * HourMs),
   formData |-> BareRecord]

SampleEntries ==
  {SampleEntry("arrest", 20, "a\nb"),
   SampleEntry("citation", 20, LongText),
   SampleEntry("citation", 12, "x"),
   SampleEntry("arrest", -11, "")}

\* the histories of up to MaxReports entries
SampleHistories == UNION {[1..n -> SampleEntries] : n \in 0..MaxReports}

StatsResults ==
  [reports \in SampleHistories |-> calculateStatistics(reports, StatsClock)]

\* ReportAnalytics.calculateStatistics(reports) called on a history at the
\* instant StatsClock, as showDashboard does
StatisticsOf(reports) ==
  /\ phase = "running"
  /\ now' = StatsClock
  /\ out' = [Quiet EXCEPT !.stats =
               [reports |-> reports, result |-> StatsResults[reports]]]
  /\ UNCHANGED <<AppState, localStorage, dom, templates, intervals,
                 nextTimerId, debounce, phase>>

Statistics == \E reports \in SampleHistories : StatisticsOf(reports)

CSVResults == [reports \in SampleHistories |-> generateCSV(reports)]

\* ReportAnalytics.generateCSV(reports) called on a history, as exportHistory
\* does
GenerateCSVOf(reports) ==
  /\ phase = "running"
  /\ out' = [Quiet EXCEPT !.csv =
               [reports |-> reports, content |-> CSVResults[reports]]]
  /\ UNCHANGED <<AppState, localStorage, dom, templates, intervals,
                 nextTimerId, debounce, phase, now>>

GenerateCSV ==
  \E reports \in SampleHistories \ {<<>>} : GenerateCSVOf(reports)

\* a section with a text input, a checkbox and a group of two radio buttons
\* (the ids of the radio buttons differ, the name is the group's)
SectionInputs(text, checked, selected) ==
  <<[id |-> "arrestLocation", name |-> "arrestLocation", type |-> "text",
     value |-> text, checked |-> FALSE],
    [id |-> "mirandaRead", name |-> "mirandaRead", type |-> "checkbox",
     value |-> "on", checked |-> checked],
    [id |-> "custodyYes", name |-> "custody", type |-> "radio",
     value |-> "yes", checked |-> selected = "yes"],
    [id |-> "custodyNo", name |-> "custody", type |-> "radio",
     value |-> "no", checked |-> selected = "no"]>>

\* the states of the section: any text, the checkbox either way, no radio
\* button or one of them selected
SectionStates ==
  {SectionInputs(text, checked, selected) :
     text \in TypedValues, checked \in BOOLEAN,
     selected \in {"none", "yes", "no"}}

\* getFormData on a section in the state source, the record stored, and
\* populateForm with it on the section in the state target (the same state,
\* or the one a reload, a clearForm or more typing left)
RoundTripOf(source, target) ==
  /\ phase = "running"
  /\ LET formData == collectInputs(source, 1, [keys |-> <<>>, v |-> <<>>])
     IN out' = [Quiet EXCEPT !.roundtrip =
                  [source |-> source, record |-> formData, target |-> target,
                   after |-> populateInputs(target, formData, 1)]]
  /\ UNCHANGED <<AppState, localStorage, dom, templates, intervals,
                 nextTimerId, debounce, phase, now>>

RoundTrip == \E source, target \in SectionStates : RoundTripOf(source, target)

\* The program as the round trip sees it: page loads, extraction and
\* injection on a section, exits.
RoundTripNext ==
  \/ PageLoad
  \/ RoundTrip
  \/ BeforeUnload
  \/ Leave

RoundTripSpec == Init /\ [][RoundTripNext]_vars

\* The program as typing and switching see it: page loads, edits, switches
\* of the report type, the debounced save, exits. The form changes by edits
\* and by the injection of stored records only.
SwitchNext ==
  \/ PageLoad
  \/ InputEvent
  \/ NavClick
  \/ DebouncedSave
  \/ BeforeUnload
  \/ Stay
  \/ Leave

SwitchSpec == Init /\ [][SwitchNext]_vars

\* The Clear button among what fills the form and the stores: edits of the
\* fields and of the suspects group, the debounced save, timer firings,
\* switches of the report type, restarts.
ClearNext ==
  \/ PageLoad
  \/ InputEvent
  \/ SuspectInput
  \/ DebouncedSave
  \/ NavClick
  \/ ClearForm
  \/ Tick
  \/ BeforeUnload
  \/ Leave

ClearSpec == Init /\ [][ClearNext]_vars

\* The program as the analytics see it: page loads, typing, calls of
\* calculateStatistics and generateCSV on a history, exits.
AnalyticsNext ==
  \/ PageLoad
  \/ InputEvent
  \/ Statistics
  \/ GenerateCSV
  \/ BeforeUnload
  \/ Leave

AnalyticsSpec == Init /\ [][AnalyticsNext]_vars

-----------------------------------------------------------------------------
(* The dirty tracker and the auto-save timer                               *)

\* the snapshot in storage holds exactly the in-memory form data and report
SnapshotMatches ==
  LET item == localStorage["kyntraAutoSave"] IN
  /\ item.st = "json"
  /\ item.v.formData = AppState.formData
  /\ item.v.currentReport = AppState.currentReport

\* C1: starting from Clean, every tracked mutation (an input or change
\* event, an explicit saveFormData, applyTemplate of a known template)
\* leaves the tracker Dirty; a successful saveData leaves it Clean with
\* lastSaveTime the time of the save; nothing else (short of the page going
\* away) turns isDirty from true to false.
C1_DirtyTransitions ==
  [][LET TrackedMutation ==
           \/ InputEvent
           \/ DebouncedSave
           \/ SaveShortcut
           \/ \E name \in DOMAIN templates[dom.active] : ApplyTemplateNamed(name)
         SuccessfulSave == AppState.isDirty /\ TickWith(TRUE)
     IN /\ (~AppState.isDirty /\ TrackedMutation) => AppState'.isDirty
        /\ SuccessfulSave =>
             (~AppState'.isDirty /\ AppState'.lastSaveTime = now)
        /\ (AppState.isDirty /\ ~AppState'.isDirty) =>
             (SuccessfulSave \/ Leave)]_vars

\* C2: whenever the tracker is Clean after a snapshot save of this session
\* has succeeded, the formData and the currentReport of the stored snapshot
\* equal the in-memory AppState.formData and AppState.currentReport.
C2_CleanMeansNotDiverged ==
  (phase = "running" /\ AppState.lastSaveTime # NoTime /\ ~AppState.isDirty)
    => SnapshotMatches

\* C3 (as amended): a firing of the timer while Dirty attempts one snapshot
\* save; when the write succeeds exactly one snapshot is written, the tracker
\* is Clean and lastSaveTime is the time of the save; when the write fails
\* nothing is written and the tracker stays Dirty; a firing while Clean
\* writes nothing and changes neither AppState nor localStorage.
C3_TickFrame ==
  [][/\ (AppState.isDirty /\ TickWith(TRUE)) =>
          /\ out'.saves = 1
          /\ ~AppState'.isDirty
          /\ AppState'.lastSaveTime = now
          /\ SnapshotMatches'
          /\ \A k \in StorageKeys \ {"kyntraAutoSave"} :
                localStorage'[k] = localStorage[k]
     /\ (AppState.isDirty /\ TickWith(FALSE)) =>
          /\ out'.saves = 0
          /\ out'.failed
          /\ UNCHANGED <<AppState, localStorage>>
     /\ (~AppState.isDirty /\ Tick) =>
          /\ out'.saves = 0
          /\ UNCHANGED <<AppState, localStorage>>]_vars

\* a firing while Dirty has written the snapshot
C3_Witness ==
  /\ phase = "running"
  /\ out.saves = 1
  /\ ~AppState.isDirty
  /\ AppState.lastSaveTime = now
  /\ SnapshotMatches

\* C3 (as the specification states it): a firing while Dirty performs exactly
\* one snapshot save and leaves the tracker Clean with lastSaveTime recorded;
\* a firing while Clean is a no-op.
C3_Original ==
  [][/\ (AppState.isDirty /\ Tick) =>
          /\ out'.saves = 1
          /\ ~AppState'.isDirty
          /\ AppState'.lastSaveTime = now
     /\ (~AppState.isDirty /\ Tick) =>
          /\ out'.saves = 0
          /\ UNCHANGED <<AppState, localStorage>>]_vars

\* C5: once the tracker is Dirty while the auto-save timer is alive, and
\* storage takes the snapshot, the tracker eventually is Clean with the
\* snapshot slot holding the current formData, unless the timer is stopped
\* or the page is being left first.
C5_AutoSaveLiveness ==
  [](( /\ phase = "running"
       /\ AppState.isDirty
       /\ AppState.autoSaveTimer \in intervals )
      => <>( \/ ( /\ ~AppState.isDirty
                  /\ localStorage["kyntraAutoSave"].st = "json"
                  /\ localStorage["kyntraAutoSave"].v.formData
                       = AppState.formData )
            \/ AppState.autoSaveTimer = NoTimer
            \/ phase # "running" ))

\* an edit has been saved, marked and then taken into the snapshot
C5_Witness ==
  /\ phase = "running"
  /\ dom.sec["arrest"]["arrestLocation"] = "x"
  /\ ~AppState.isDirty
  /\ AppState.autoSaveTimer \in intervals
  /\ localStorage["kyntraAutoSave"].st = "json"
  /\ localStorage["kyntraAutoSave"].v.formData = AppState.formData
  /\ AppState.formData["arrest"] # Undefined
  /\ AppState.formData["arrest"].f["arrestLocation"] = "x"

\* C4: under any sequence of AutoSave.init, startAutoSave and stopAutoSave
\* calls at most one interval timer is alive, the one AppState.autoSaveTimer
\* names; after stopAutoSave none is alive and autoSaveTimer is null.
C4_AtMostOneTimer ==
  /\ [](/\ Cardinality(intervals) <= 1
        /\ AppState.autoSaveTimer = NoTimer => intervals = {}
        /\ AppState.autoSaveTimer # NoTimer =>
             intervals = {AppState.autoSaveTimer})
  /\ [][StopAutoSave =>
          (intervals' = {} /\ AppState'.autoSaveTimer = NoTimer)]_vars

\* a second startAutoSave has replaced the timer of the first
C4_Witness ==
  /\ phase = "running"
  /\ nextTimerId = 3
  /\ intervals = {2}
  /\ AppState.autoSaveTimer = 2

\* C6: the exit guard asks for confirmation exactly when the tracker is
\* Dirty at that moment, and the handler changes no state of the program; a
\* Clean page leaves without a prompt.
C6_ExitGuard ==
  /\ [][BeforeUnload =>
          /\ out'.prompt = AppState.isDirty
          /\ UNCHANGED <<AppState, localStorage, dom, templates, intervals,
                         nextTimerId, debounce>>]_vars
  /\ [](phase = "unloading" => out.prompt = AppState.isDirty)
  /\ [][(phase = "unloading" /\ ~AppState.isDirty) => phase' = "closed"]_vars

\* the user is asked whether to leave a Dirty page
C6_Witness ==
  /\ phase = "unloading"
  /\ out.prompt
  /\ AppState.isDirty

-----------------------------------------------------------------------------
(* Recovery at startup                                                     *)

\* the age of the stored snapshot
SnapshotAge == now - getTime(localStorage["kyntraAutoSave"].v.timestamp)

\* the startup with the given slot absent
StartWithout(key, confirm) ==
  App_init([World(confirm, TRUE) EXCEPT !.ls[key] = Absent])

\* the step ends as the startup without the given slot ends
EndsAsWithout(key, confirm) ==
  LET cold == StartWithout(key, confirm) IN
  /\ AppState' = cold.app
  /\ localStorage' = cold.ls
  /\ dom' = cold.dom
  /\ templates' = cold.tpl
  /\ intervals' = cold.iv
  /\ out'.threw = cold.out.threw

\* C7: at startup a stored snapshot is offered for recovery exactly when its
\* age is below 24 hours; a snapshot of 24 hours or more is removed without
\* an offer and checkForRecovery leaves AppState unchanged; with no snapshot
\* checkForRecovery changes nothing.
C7_SnapshotFreshness ==
  /\ [][PageLoad =>
          LET item == localStorage["kyntraAutoSave"] IN
          /\ (out'.recovery \in {"accepted", "declined"})
               <=> (item.st = "json" /\ SnapshotAge < FreshWindow)
          /\ (item.st = "json" /\ SnapshotAge >= FreshWindow) =>
               /\ out'.recovery = "stale"
               /\ localStorage'["kyntraAutoSave"] = Absent
          /\ item.st = "absent" =>
               /\ out'.recovery = "absent"
               /\ localStorage'["kyntraAutoSave"] = Absent]_vars
  /\ [](\A confirm \in BOOLEAN :
          LET w == World(confirm, TRUE)
              r == checkForRecovery(w)
              item == localStorage["kyntraAutoSave"]
          IN /\ (item.st = "json" /\ SnapshotAge >= FreshWindow) =>
                  r = [w EXCEPT !.ls["kyntraAutoSave"] = Absent,
                                !.out.recovery = "stale"]
             /\ item.st = "absent" => r = [w EXCEPT !.out.recovery = "absent"])

\* a snapshot of exactly 24 hours has been removed without an offer
C7_Witness ==
  /\ phase = "running"
  /\ out.recovery = "stale"
  /\ now = FreshWindow
  /\ localStorage["kyntraAutoSave"] = Absent

\* C8: when the user declines the offer the snapshot is removed, the startup
\* ends exactly as it ends with no snapshot stored (in particular AppState
\* takes nothing from the snapshot), and a later start with the slot still
\* empty offers nothing.
C8_RecoveryDecline ==
  /\ [][(PageLoadWith(FALSE) /\ out'.recovery = "declined") =>
          /\ localStorage'["kyntraAutoSave"] = Absent
          /\ EndsAsWithout("kyntraAutoSave", FALSE)]_vars
  /\ [][(PageLoad /\ localStorage["kyntraAutoSave"] = Absent) =>
          out'.recovery = "absent"]_vars

\* the offer has been declined
C8_Witness ==
  /\ phase = "running"
  /\ out.recovery = "declined"
  /\ localStorage["kyntraAutoSave"] = Absent

\* C9: when the user accepts the offer, AppState.formData and
\* AppState.currentReport after App.init equal the formData and the
\* currentReport of the snapshot.
C9_RecoveryAccept ==
  [][(PageLoadWith(TRUE) /\ out'.recovery = "accepted") =>
       LET data == localStorage["kyntraAutoSave"].v IN
       /\ AppState'.formData = data.formData
       /\ AppState'.currentReport = data.currentReport]_vars

\* C10: a persistence slot that does not parse at startup is treated as
\* absent, the bad value is removed from storage, and the startup goes on
\* without raising an error; this holds for every one of the four slots.
C10_UniformCorruption ==
  [][\A confirm \in BOOLEAN : \A key \in StorageKeys :
       (PageLoadWith(confirm) /\ localStorage[key] = Corrupt) =>
         /\ ~out'.threw
         /\ localStorage'[key] # Corrupt
         /\ EndsAsWithout(key, confirm)]_vars

-----------------------------------------------------------------------------
(* The two save paths                                                      *)

\* C11: when the form-data slot is absent or does not parse, loadFormData
\* (from switchReport or from App.init) ends without an error with the
\* record of the requested report type empty, and the operation that called
\* it runs to completion.
C11_LoadFormDataFailsSoft ==
  [][LET slot == localStorage["kyntraFormData"]
         Unreadable == slot = Absent \/ slot = Corrupt
     IN /\ \A t \in ReportTypes :
             (NavClickTo(t) /\ Unreadable) =>
               /\ ~out'.threw
               /\ AppState'.formData[t] = Undefined
               /\ AppState'.currentReport = t
        /\ (PageLoad /\ Unreadable) =>
               /\ ~out'.threw
               /\ AppState'.currentReport = DefaultReport
               /\ dom'.active = DefaultReport]_vars

C13_IndependentSlots ==
  [][/\ (AppState.isDirty /\ TickWith(TRUE)) =>
          /\ localStorage'["kyntraAutoSave"].st = "json"
          /\ localStorage'["kyntraAutoSave"].v =
               [formData |-> AppState.formData,
                currentReport |-> AppState.currentReport,
                timestamp |-> toISOString(now),
                version |-> "1.0"]
     /\ Tick =>
          /\ \A k \in StorageKeys \ {"kyntraAutoSave"} :
               localStorage'[k] = localStorage[k]
          /\ templates' = templates
     /\ (SaveShortcut \/ DebouncedSave) =>
          localStorage'["kyntraAutoSave"] = localStorage["kyntraAutoSave"]]_vars

\* the snapshot and the form-data slot hold different mappings
C13_Witness ==
  /\ phase = "running"
  /\ localStorage["kyntraAutoSave"].st = "json"
  /\ localStorage["kyntraFormData"].st = "json"
  /\ localStorage["kyntraAutoSave"].v.formData
       # localStorage["kyntraFormData"].v
  /\ AppState.isDirty

-----------------------------------------------------------------------------
(* Report generation and the history                                       *)

HistorySlot == localStorage["kyntraReportHistory"]

\* C14: generate aborts on validation failure. When the visible section does
\* not validate, generate writes no report to the output, leaves
\* AppState.generatedReports, the persisted history, AppState.formData and
\* isDirty as they were, shows the error status and throws nothing.
C14_GenerateAborts ==
  [][~validateForm(dom, dom.active) /\ Generate =>
       /\ out'.report = ""
       /\ AppState'.generatedReports = AppState.generatedReports
       /\ HistorySlot' = HistorySlot
       /\ AppState'.formData = AppState.formData
       /\ AppState'.isDirty = AppState.isDirty
       /\ out'.status = "error"
       /\ ~out'.threw]_vars

\* a refused generate on a dirty page with saved form data and a history
C14_Witness ==
  /\ out.status = "error"
  /\ ~validateForm(dom, dom.active)
  /\ Len(AppState.generatedReports) > 0
  /\ AppState.isDirty
  /\ AppState.formData # EmptyFormData

\* generatedReports after one entry for the visible section was pushed
AppendsOneEntry ==
  LET old == AppState.generatedReports
      new == AppState'.generatedReports
      t == dom.active
      record == getFormData(dom, t)
  IN /\ Len(new) = Len(old) + 1
     /\ SubSeq(new, 1, Len(old)) = old
     /\ new[Len(new)].type = t
     /\ new[Len(new)].content = buildReport(t, record)
     /\ new[Len(new)].formData = record

\* the stored history is the in-memory sequence
HistoryPersisted == HistorySlot = JSONstringify(AppState.generatedReports)

\* (C15 as stated: every generate on a valid form appends one entry and
\* leaves the stored history equal to the in-memory sequence.)
C15_Original ==
  [][validateForm(dom, dom.active) /\ Generate =>
       AppendsOneEntry /\ HistoryPersisted']_vars

\* C15: generate on a valid form appends exactly one entry at the end of
\* generatedReports, with the requested type, content = buildReport(type,
\* extracted record) and formData = the extracted record, keeps the earlier
\* entries in place and order, and throws nothing; when localStorage accepts
\* the write the stored history equals the in-memory sequence, and when it
\* refuses the write the stored history keeps its old value.
C15_GenerateAppends ==
  [][validateForm(dom, dom.active) =>
       /\ (Generate => AppendsOneEntry /\ ~out'.threw)
       /\ (GenerateWith(TRUE) => HistoryPersisted')
       /\ (GenerateWith(FALSE) => HistorySlot' = HistorySlot)]_vars

\* a second report, unlike the first, just generated and stored
C15_Witness ==
  /\ out.status = "success"
  /\ Len(AppState.generatedReports) = 2
  /\ out.report = AppState.generatedReports[2].content
  /\ AppState.generatedReports[1].content # out.report
  /\ HistoryPersisted

\* C16: the history is append-only and its entries are immutable. On the
\* running page every step (generate, viewReport, edits of the form, saves,
\* report switches, template application, timer firings, export,
\* clearHistory) leaves generatedReports unchanged, or extended by one entry
\* at the end with every earlier entry (type, content, timestamp, formData)
\* as it was, or emptied by a clearHistory the user confirmed.
C16_HistoryAppendOnly ==
  [][phase = "running" =>
       LET old == AppState.generatedReports
           new == AppState'.generatedReports
       IN \/ new = old
          \/ /\ Len(new) = Len(old) + 1
             /\ SubSeq(new, 1, Len(old)) = old
             /\ Generate
          \/ /\ new = <<>>
             /\ \E writeOK \in BOOLEAN : ClearHistoryWith(TRUE, writeOK)]_vars

\* two unlike entries, the older one just viewed, and a form that was edited
\* since the newer one was generated
C16_Witness ==
  LET reports == AppState.generatedReports IN
  /\ Len(reports) = 2
  /\ reports[1] # reports[2]
  /\ out.status = "success"
  /\ out.report = reports[1].content
  /\ reports[2].formData # getFormData(dom, reports[2].type)
  /\ AppState.isDirty

\* clearHistory declined: nothing changes
DeclinedClearKeeps ==
  (\E writeOK \in BOOLEAN : ClearHistoryWith(FALSE, writeOK)) =>
     /\ AppState'.generatedReports = AppState.generatedReports
     /\ HistorySlot' = HistorySlot

\* (C17 as stated: a confirmed clearHistory empties generatedReports and
\* leaves the empty sequence stored; a declined one changes neither.)
C17_Original ==
  [][/\ DeclinedClearKeeps
     /\ (\E writeOK \in BOOLEAN : ClearHistoryWith(TRUE, writeOK)) =>
          /\ AppState'.generatedReports = <<>>
          /\ HistorySlot' = JSONstringify(<<>>)]_vars

\* C17: clearHistory. When the user declines, the in-memory and the stored
\* history are unchanged. When the user confirms, generatedReports becomes
\* empty and nothing is thrown; if localStorage accepts the write the stored
\* history becomes the empty sequence, and a page load that finds the empty
\* sequence stored starts with an empty history; if localStorage refuses the
\* write the stored history keeps its old value.
C17_ClearHistory ==
  [][/\ DeclinedClearKeeps
     /\ (\E writeOK \in BOOLEAN : ClearHistoryWith(TRUE, writeOK)) =>
          AppState'.generatedReports = <<>> /\ ~out'.threw
     /\ ClearHistoryWith(TRUE, TRUE) => HistorySlot' = JSONstringify(<<>>)
     /\ ClearHistoryWith(TRUE, FALSE) => HistorySlot' = HistorySlot
     /\ (PageLoad /\ HistorySlot = JSONstringify(<<>>)) =>
          AppState'.generatedReports = <<>>]_vars

\* a confirmed clearHistory just emptied the history in memory and in
\* storage
C17_Witness ==
  /\ out.status = "success"
  /\ out.report = ""
  /\ out.downloads = 0
  /\ AppState.generatedReports = <<>>
  /\ HistorySlot = JSONstringify(<<>>)

-----------------------------------------------------------------------------
(* The extracted record                                                    *)

\* name and id both blank after trimming
Nameless(suspect) == IsBlank(suspect.name) /\ IsBlank(suspect.id)

NoNamelessSuspect(record) ==
  record = Undefined \/
  \A i \in 1..Len(record.suspects) : ~Nameless(record.suspects[i])

NoNamelessIn(formData) == \A t \in ReportTypes : NoNamelessSuspect(formData[t])

\* the positions of the group whose item has a name or an id, and the k-th
\* of them
Named(group) == {i \in 1..Len(group) : ~Nameless(group[i])}
NthNamed(group, k) ==
  CHOOSE i \in Named(group) : Cardinality({j \in Named(group) : j < i}) = k - 1

\* C18: suspect normalization. The record extracted from the form holds
\* exactly the items of the suspects group that have a name or an id after
\* trimming, in the order of the group, whatever their charges; and no
\* record of AppState.formData, of the stored form data, of the snapshot or
\* of a history entry (in memory or stored) holds a suspect whose name and id
\* are both blank.
C18_SuspectNormalization ==
  /\ LET extracted == getFormData(dom, dom.active).suspects IN
       /\ Len(extracted) = Cardinality(Named(dom.suspects))
       /\ \A k \in 1..Len(extracted) :
            extracted[k] = dom.suspects[NthNamed(dom.suspects, k)]
  /\ NoNamelessIn(AppState.formData)
  /\ localStorage["kyntraFormData"].st = "json" =>
       NoNamelessIn(localStorage["kyntraFormData"].v)
  /\ localStorage["kyntraAutoSave"].st = "json" =>
       NoNamelessIn(localStorage["kyntraAutoSave"].v.formData)
  /\ \A i \in 1..Len(AppState.generatedReports) :
       NoNamelessSuspect(AppState.generatedReports[i].formData)
  /\ HistorySlot.st = "json" =>
       \A i \in 1..Len(HistorySlot.v) : NoNamelessSuspect(HistorySlot.v[i].formData)

\* the group holds a suspect with charges only between two others, and the
\* saved record, the stored record, the snapshot and a history entry all
\* hold the two others
C18_Witness ==
  /\ dom.suspects = <<NamedSuspect, ChargesOnly, NumberedSuspect>>
  /\ AppState.formData["arrest"] # Undefined
  /\ AppState.formData["arrest"].suspects = <<NamedSuspect, NumberedSuspect>>
  /\ localStorage["kyntraFormData"] = JSONstringify(AppState.formData)
  /\ localStorage["kyntraAutoSave"].st = "json"
  /\ localStorage["kyntraAutoSave"].v.formData = AppState.formData
  /\ Len(AppState.generatedReports) > 0
  /\ AppState.generatedReports[1].formData.suspects
       = <<NamedSuspect, NumberedSuspect>>

-----------------------------------------------------------------------------
(* The composer                                                            *)

SeparatorRule == "=================================================="

\* the block of one scalar key, none for a reserved key or an empty value
ScalarBlock(record, key) ==
  IF key \in {"officers", "suspects"} THEN ""
  ELSE IF ~IsTruthy(key, record.f[key]) THEN ""
  ELSE Labels[key] \o ":\n" \o String(key, record.f[key]) \o "\n\n"

\* strings joined in the order of the sequence
RECURSIVE Joined(_)
Joined(strings) ==
  IF strings = <<>> THEN "" ELSE Head(strings) \o Joined(Tail(strings))

ScalarBlocks(record) ==
  Joined([i \in 1..Len(record.keys) |-> ScalarBlock(record, record.keys[i])])

OfficersBlock(record) ==
  IF record.officers = <<>> THEN ""
  ELSE "ARRESTING OFFICERS:\n"
       \o Joined([i \in 1..Len(record.officers) |->
                    ToString(i) \o ". " \o record.officers[i] \o "\n"])
       \o "\n"

SuspectsBlock(record) ==
  IF record.suspects = <<>> THEN ""
  ELSE "SUSPECTS:\n"
       \o Joined([i \in 1..Len(record.suspects) |->
                    LET suspect == record.suspects[i] IN
                    ToString(i) \o ". "
                    \o (IF suspect.name = "" THEN "Unknown" ELSE suspect.name)
                    \o (IF suspect.id = "" THEN ""
                        ELSE " (ID: " \o suspect.id \o ")")
                    \o (IF suspect.charges = "" THEN ""
                        ELSE "\n   Charges: " \o suspect.charges)
                    \o "\n"])
       \o "\n"

\* the report of the arrest example, and of the full record with the date
\* key first
ExampleReport ==
  "ARREST REPORT\n" \o SeparatorRule \o "\n\n"
  \o "Arrest Location:\n5th & Main\n\n"
  \o "ARRESTING OFFICERS:\n1. Badge 221\n\n"
  \o "SUSPECTS:\n1. J. Doe\n   Charges: Trespassing\n\n"

DateFirstReport ==
  "CITATION REPORT\n" \o SeparatorRule \o "\n\n"
  \o "Arrest Date Time:\n2024-05-01T10:30\n\n"
  \o "Arrest Location:\n5th & Main\n\n"
  \o "ARRESTING OFFICERS:\n1. Badge 221\n2. Badge 7\n\n"
  \o "SUSPECTS:\n1. Unknown (ID: A-17)\n2. J. Doe\n   Charges: Trespassing\n\n"

\* C20: section order of buildReport. The text is the title line of the
\* report type, the separator rule, the scalar blocks in the order of the
\* record's keys, the officers block if there are officers, the suspects
\* block if there are suspects, in that order; the arrest example gives the
\* title, the Arrest Location block, the ARRESTING OFFICERS block and the
\* SUSPECTS block, and the same fields with the keys the other way round
\* give the blocks the other way round.
C20_SectionOrder ==
  [][/\ \A t \in ReportTypes, record \in ComposeRecords :
          ComposeOf(t, record) =>
            out'.report = headers(t) \o "\n" \o SeparatorRule \o "\n\n"
                          \o ScalarBlocks(record)
                          \o OfficersBlock(record)
                          \o SuspectsBlock(record)
     /\ ComposeOf("arrest", ExampleRecord) => out'.report = ExampleReport
     /\ ComposeOf("citation", FullRecord(<<"arrestDateTime", "arrestLocation">>))
          => out'.report = DateFirstReport]_vars

\* the composer has just returned the report of the arrest example
C20_Witness ==
  /\ out.status = "none"
  /\ out.report = ExampleReport
  /\ out.report = buildReport("arrest", ExampleRecord)

\* the record with its i-th key taken out of the key order, with the keys
\* before the i-th only, and with the keys after the i-th only
WithoutKey(record, i) ==
  [record EXCEPT !.keys = SubSeq(@, 1, i - 1) \o SubSeq(@, i + 1, Len(@))]
KeysBefore(record, i) == [record EXCEPT !.keys = SubSeq(@, 1, i - 1)]
KeysAfter(record, i) == [record EXCEPT !.keys = SubSeq(@, i + 1, Len(@))]

\* the key is not reserved and its value is not empty: not the empty string,
\* not an unticked checkbox
HasScalarValue(record, key) ==
  /\ key \notin {"officers", "suspects"}
  /\ IF key \in CheckboxIds THEN record.f[key] = TRUE ELSE record.f[key] # ""

\* C21: scalar blocks of buildReport. Taking a key out of the record changes
\* the report if and only if the key is not officers or suspects and its
\* value is not empty (an empty string and an unticked checkbox give no
\* block); such a key gives exactly one block, 'Label:', its value and a
\* blank line, between the blocks of the keys before it and of the keys
\* after it; a ticked checkbox prints as true and a value of one space is
\* a value.
C21_ScalarBlocks ==
  [][/\ \A t \in ReportTypes, record \in ComposeRecords :
          ComposeOf(t, record) =>
            \A i \in 1..Len(record.keys) :
              LET key == record.keys[i] IN
              /\ (out'.report # buildReport(t, WithoutKey(record, i)))
                   <=> HasScalarValue(record, key)
              /\ HasScalarValue(record, key) =>
                   FieldBlocks(record, 1)
                     = FieldBlocks(KeysBefore(record, i), 1)
                       \o Labels[key] \o ":\n" \o String(key, record.f[key])
                       \o "\n\n"
                       \o FieldBlocks(KeysAfter(record, i), 1)
     /\ ComposeOf("arrest", CheckboxRecord(TRUE)) =>
          out'.report = "ARREST REPORT\n" \o SeparatorRule \o "\n\n"
                        \o "Miranda Read:\ntrue\n\n"
                        \o "Arrest Location:\n \n\n"
                        \o "ARRESTING OFFICERS:\n1. Badge 221\n\n"
     /\ ComposeOf("arrest", CheckboxRecord(FALSE)) =>
          out'.report = "ARREST REPORT\n" \o SeparatorRule \o "\n\n"
                        \o "Arrest Location:\n \n\n"
                        \o "ARRESTING OFFICERS:\n1. Badge 221\n\n"]_vars

\* the composer has just returned the report of the record with the unticked
\* checkbox
C21_Witness ==
  /\ out.status = "none"
  /\ out.report = buildReport("arrest", CheckboxRecord(FALSE))
  /\ out.report # buildReport("arrest", CheckboxRecord(TRUE))

\* C22: repeated groups of buildReport. After the scalar blocks the report
\* holds the officers block only when the officers list is not empty and the
\* suspects block only when the suspects list is not empty; entries are
\* numbered 1..n in record order; a suspect line shows the name, or 'Unknown'
\* without one, ' (ID: <id>)' only for a non-empty id, and a 'Charges:' line
\* only for non-empty charges.
C22_RepeatedGroups ==
  [][/\ \A t \in ReportTypes, record \in ComposeRecords :
          ComposeOf(t, record) =>
            out'.report = headers(t) \o "\n" \o SeparatorRule \o "\n\n"
                          \o FieldBlocks(record, 1)
                          \o OfficersBlock(record) \o SuspectsBlock(record)
     /\ ComposeOf("citation", GroupsRecord) =>
          out'.report = "CITATION REPORT\n" \o SeparatorRule \o "\n\n"
                        \o "ARRESTING OFFICERS:\n"
                        \o "1. Badge 7\n2. Badge 221\n3. Badge 7\n\n"
                        \o "SUSPECTS:\n"
                        \o "1. J. Doe (ID: A-17)\n   Charges: Trespassing\n"
                        \o "2. Unknown\n"
                        \o "3. Unknown (ID: 7)\n\n"
     /\ ComposeOf("citation", SuspectsOnlyRecord) =>
          out'.report = "CITATION REPORT\n" \o SeparatorRule \o "\n\n"
                        \o "SUSPECTS:\n"
                        \o "1. Unknown\n   Charges: Trespassing\n\n"
     /\ ComposeOf("citation", BareRecord) =>
          out'.report = "CITATION REPORT\n" \o SeparatorRule \o "\n\n"]_vars

\* the composer has just returned the report of the record with three
\* officers and three suspects
C22_Witness ==
  /\ out.status = "none"
  /\ out.report = buildReport("citation", GroupsRecord)
  /\ Len(GroupsRecord.suspects) = 3

-----------------------------------------------------------------------------
(* Templates                                                               *)

\* C23: applying a known template is a non-destructive merge. After
\* applyTemplate(reportType, name) every field of the section that the
\* template mentions holds the template's value, every other field holds the
\* value it held before, and the officers and the suspects that were filled
\* in are still there.
C23_NonDestructiveMerge ==
  [][\A t \in ReportTypes, name \in TemplateNames :
       (name \in DOMAIN templates[t] /\ ApplyTemplateTo(t, name)) =>
         LET data == templates[t][name].data IN
         /\ \A k \in FieldSet(t) :
              dom'.sec[t][k] = IF k \in DOMAIN data THEN data[k]
                               ELSE dom.sec[t][k]
         /\ getOfficers(dom') = getOfficers(dom)
         /\ getSuspects(dom') = getSuspects(dom)]_vars

\* C24: applyTemplate with an unknown template is a silent no-op. For every
\* report type, also one without a template map, and every name that is not
\* a template of that type, applyTemplate raises no error and leaves the
\* form, AppState (formData and the dirty flag with it) and every storage
\* slot unchanged.
C24_UnknownTemplateNoOp ==
  [][\A t \in ReportTypes \cup MaplessTypes, name \in TemplateNames :
       (/\ t \notin DOMAIN templates \/ name \notin DOMAIN templates[t]
        /\ ApplyTemplateTo(t, name)) =>
         /\ ~out'.threw
         /\ UNCHANGED <<dom, AppState, localStorage>>]_vars

\* the entries of a record that are not blank: the strings that are not
\* whitespace, the ticked checkboxes, the lists that are not empty
NonBlankEntries(record) ==
  [k \in {key \in DOMAIN record.f :
            IF key \in CheckboxIds THEN record.f[key]
            ELSE ~IsBlank(record.f[key])} |-> record.f[k]]
  @@ (IF record.officers # <<>> THEN "officers" :> record.officers ELSE <<>>)
  @@ (IF record.suspects # <<>> THEN "suspects" :> record.suspects ELSE <<>>)

\* C25: saveAsTemplate with a non-empty name completes without an error on
\* every record; it stores, in memory and in the persisted overlay, a
\* template flagged custom whose data is exactly the non-blank entries of
\* the record, or, when no entry is non-blank, leaves the template map and
\* the persisted overlay unchanged.
C25_SaveAsTemplate ==
  [][\A name \in TemplateNames :
       SaveAsTemplateNamed(name) =>
         LET t == dom.active
             data == NonBlankEntries(getFormData(dom, t))
             overlay == localStorage'["kyntraCustomTemplates"]
         IN /\ ~out'.threw
            /\ IF DOMAIN data = {}
               THEN UNCHANGED <<templates, localStorage>>
               ELSE /\ name \in DOMAIN templates'[t]
                    /\ templates'[t][name].custom
                    /\ templates'[t][name].data = data
                    /\ overlay.st = "json"
                    /\ t \in DOMAIN overlay.v
                    /\ name \in DOMAIN overlay.v[t]
                    /\ overlay.v[t][name] = templates'[t][name]]_vars

\* the persisted overlay: the templates of a report type in the slot, none
\* when the slot is absent
Persisted(ls, t) ==
  LET item == ls["kyntraCustomTemplates"] IN
  IF item.st = "json" /\ t \in DOMAIN item.v THEN item.v[t] ELSE <<>>

\* the template map a page load builds from the storage
AfterRestart(ls) == loadCustomTemplates([tpl |-> BuiltinTemplates, ls |-> ls]).tpl

C27_BuiltinNotDeletable ==
  [][\A t \in ReportTypes, name \in TemplateNames, confirm \in BOOLEAN :
       (/\ name \in DOMAIN templates[t]
        /\ ~templates[t][name].custom
        /\ DeleteTemplateOf(t, name, confirm)) =>
         templates' = templates]_vars

\* every template in the persisted slot is flagged custom
OnlyCustomPersisted ==
  \A t \in ReportTypes :
    \A n \in DOMAIN Persisted(localStorage, t) :
      Persisted(localStorage, t)[n].custom

\* C28: only the custom overlay is persisted. The persisted slot never holds
\* a template that is not flagged custom, and a page load leaves, for each
\* report type, the built-in templates overlaid with exactly the persisted
\* custom templates, a custom template taking the place of a built-in of the
\* same name.
C28_OnlyOverlayPersisted ==
  /\ []OnlyCustomPersisted
  /\ [][PageLoad =>
         \A t \in ReportTypes :
           LET custom == Persisted(localStorage', t) IN
           /\ DOMAIN templates'[t]
                = DOMAIN BuiltinTemplates[t] \cup DOMAIN custom
           /\ \A n \in DOMAIN templates'[t] :
                templates'[t][n] = IF n \in DOMAIN custom THEN custom[n]
                                   ELSE BuiltinTemplates[t][n]]_vars

\* the page has loaded on an overlay with a custom "DUI Arrest": the custom
\* template has taken the place of the built-in, the built-in "Speeding" is
\* there next to the custom citation template
C28_Witness ==
  /\ phase = "running"
  /\ templates["arrest"]["DUI Arrest"] = CustomTemplate("arrestLocation", "Elm St")
  /\ DOMAIN templates["citation"] = {"Speeding", "My Stop"}
  /\ ~templates["citation"]["Speeding"].custom
  /\ DOMAIN Persisted(localStorage, "arrest") = {"My Stop", "DUI Arrest"}

-----------------------------------------------------------------------------
(* Validation                                                              *)

\* the messages of the rules that fail on the value, in rule order
FailureMessages(value, rules) ==
  LET outcomes == [i \in 1..Len(rules) |-> applyRule(value, rules[i])]
      failures == SelectSeq(outcomes, LAMBDA o : ~o.isValid)
  IN [i \in 1..Len(failures) |-> failures[i].message]

\* C29: runValidation collects all failures. For every value and rule list
\* every rule is applied, whatever the earlier rules gave: errors holds one
\* message per failed rule, in rule order, and the result is valid if and
\* only if errors is empty.
C29_CollectsAllFailures ==
  [][/\ Evaluate(out'.validation.value, out'.validation.rules) =>
          LET result == out'.validation.result IN
          /\ result.errors = FailureMessages(out'.validation.value,
                                             out'.validation.rules)
          /\ result.isValid <=> result.errors = <<>>
     /\ Evaluate("x", <<[type |-> "caseNumber", value |-> ""],
                        [type |-> "minLength", value |-> "3"]>>) =>
          out'.validation.result.errors
            = <<"Must be in format: CID-ReportNumber-SO",
                "Must be at least 3 characters">>
     /\ Evaluate("x", <<[type |-> "minLength", value |-> "3"],
                        [type |-> "caseNumber", value |-> ""]>>) =>
          out'.validation.result.errors
            = <<"Must be at least 3 characters",
                "Must be in format: CID-ReportNumber-SO">>]_vars

\* runValidation has just returned two errors for a list of two rules
C29_Witness ==
  /\ Len(out.validation.rules) = 2
  /\ Len(out.validation.result.errors) = 2
  /\ ~out.validation.result.isValid

\* the values of the model of the form CID-<digits>-SO
CaseNumbers == {"CID-4821-SO", "CID-7-SO"}

\* C30: the required rule on an empty or whitespace-only value is invalid
\* with the single message 'This field is required'; the caseNumber rule is
\* valid exactly for the values of the form CID-<one or more digits>-SO with
\* nothing before or after: CID-4821-SO is valid, CID-abc-SO is not.
C30_RulePredicates ==
  [][LET value == out'.validation.value IN
     /\ (value \in {"", " "}
         /\ Evaluate(value, <<[type |-> "required", value |-> ""]>>)) =>
          out'.validation.result
            = [isValid |-> FALSE, errors |-> <<"This field is required">>,
               warnings |-> <<>>]
     /\ Evaluate(value, <<[type |-> "caseNumber", value |-> ""]>>) =>
          /\ out'.validation.result.isValid <=> value \in CaseNumbers
          /\ value = "CID-4821-SO" => out'.validation.result.isValid
          /\ value = "CID-abc-SO" => ~out'.validation.result.isValid]_vars

\* the caseNumber rule has just refused CID-abc-SO
C30_Witness ==
  /\ out.validation.value = "CID-abc-SO"
  /\ out.validation.rules = <<[type |-> "caseNumber", value |-> ""]>>
  /\ out.validation.result.errors = <<"Must be in format: CID-ReportNumber-SO">>

\* C31: case-number fields under the validation that generate uses. A
\* section whose only field is an optional case-number field passes
\* validateForm if and only if the value is empty or is exactly
\* CID-<digits>-SO: a value that only contains such a text fails, and an
\* empty case-number field does not block generation.
C31_CaseNumberField ==
  [][\A value \in CaseFieldValues :
       ValidateFormOn(<<CaseNumberField(value)>>) =>
         (out'.form.result.isValid <=> (value = "" \/ value \in CaseNumbers))]_vars

\* the positions of the fields that fail their derived rules
FailingFields(fields) ==
  {i \in 1..Len(fields) :
     ~runValidation(fields[i].value, getFieldValidation(fields[i])).isValid}

\* C32: SmartValidation.validateForm evaluates every field of the section,
\* also the fields after one that failed; it returns true if and only if
\* every field passes its derived rules, and false for a report type that
\* has no section; the field it selects for focus is the first failing field
\* in declaration order, none when all pass.
C32_EvaluateForm ==
  [][ValidateFormOn(out'.form.fields) =>
       \A fields \in {out'.form.fields}, result \in {out'.form.result} :
       \A failing \in {FailingFields(fields)} :
          /\ result.invalid = failing
          /\ result.isValid <=> failing = {}
          /\ result.firstInvalidField
               = IF failing = {} THEN 0
                 ELSE CHOOSE i \in failing : \A j \in failing : i <= j
          /\ ~validateForm(dom', "no-such-report")
          /\ fields = <<RequiredField(""), CaseNumberField("CID-abc-SO")>> =>
               result = [isValid |-> FALSE, firstInvalidField |-> 1,
                         invalid |-> {1, 2}]
          /\ fields = <<RequiredField("x"), CaseNumberField("CID-abc-SO")>> =>
               result = [isValid |-> FALSE, firstInvalidField |-> 2,
                         invalid |-> {2}]
          /\ fields = <<RequiredField("x"), CaseNumberField("CID-7-SO")>> =>
               result = [isValid |-> TRUE, firstInvalidField |-> 0,
                         invalid |-> {}]]_vars

\* validateForm has just run on a section whose two fields both fail: both
\* are marked, the first is the one to focus
C32_Witness ==
  /\ Len(out.form.fields) = 2
  /\ out.form.result.invalid = {1, 2}
  /\ out.form.result.firstInvalidField = 1

-----------------------------------------------------------------------------
(* Analytics                                                               *)

\* the number of entries of a type in a history
CountOf(reports, type) ==
  Cardinality({i \in 1..Len(reports) : reports[i].type = type})

\* the position of the first entry of a type
FirstOf(reports, type) ==
  CHOOSE i \in 1..Len(reports) :
    reports[i].type = type /\ \A j \in 1..(i - 1) : reports[j].type # type

\* the type with the most entries, the one met first among equals
MostFrequent(reports) ==
  CHOOSE type \in ReportTypes :
    /\ CountOf(reports, type) > 0
    /\ \A other \in ReportTypes \ {type} :
         \/ CountOf(reports, other) < CountOf(reports, type)
         \/ /\ CountOf(reports, other) = CountOf(reports, type)
            /\ FirstOf(reports, type) < FirstOf(reports, other)

\* total, the counts and the two windows
CountsAgree(reports, result) ==
  /\ result.total = Len(reports)
  /\ \A type \in ReportTypes :
       IF CountOf(reports, type) = 0
       THEN type \notin DOMAIN result.typeDistribution.count
       ELSE result.typeDistribution.count[type] = CountOf(reports, type)
  /\ result.thisWeek <= result.thisMonth
  /\ result.thisMonth <= result.total
  /\ UNCHANGED AppState

Lines(cs) ==
  LET breaks == {i \in 1..Len(cs) : cs[i] = "\n"}
      \* the position of the k-th line break; the ends of the text beyond
      break(k) ==
        IF k = 0 THEN 0
        ELSE IF k > Cardinality(breaks) THEN Len(cs) + 1
        ELSE CHOOSE i \in breaks : Cardinality({j \in breaks : j < i}) = k - 1
  IN [k \in 1..(Cardinality(breaks) + 1) |->
        SubSeq(cs, break(k - 1) + 1, break(k) - 1)]

\* the preview a row is to hold: the first hundred characters of the
\* content, line breaks as spaces, and three dots
Preview(content) ==
  [i \in 1..(IF Len(content) < 100 THEN Len(content) ELSE 100) |->
     IF content[i] = "\n" THEN " " ELSE content[i]] \o <<".", ".", ".">>

\* the row of an entry: its three cells in quotes, commas between them
Row(report) ==
  <<"\"">> \o TimestampChars(report.timestamp) \o <<"\"", ",", "\"">>
    \o Chars(report.type) \o <<"\"", ",", "\"">>
    \o Preview(Chars(report.content)) \o <<"\"">>

\* C34: the CSV of a history of n >= 1 entries has exactly n + 1 lines: the
\* header Timestamp,Type,Content Preview, then for each entry in history
\* order the row of its timestamp, type and preview, whatever line breaks
\* the content holds; a preview is at most 103 characters long.
C34_CSVShape ==
  [][GenerateCSVOf(out'.csv.reports) =>
       \A reports \in {out'.csv.reports} :
       \A lines \in {Lines(out'.csv.content)} :
         /\ Len(lines) = Len(reports) + 1
         /\ Text(lines[1]) = "Timestamp,Type,Content Preview"
         /\ \A i \in 1..Len(reports) :
              /\ lines[i + 1] = Row(reports[i])
              /\ Len(Preview(Chars(reports[i].content))) <= 103]_vars

\* the CSV of a history of two entries has been made, the first with a line
\* break in a short content, the second with a content of more than a
\* hundred characters and line breaks before and after the hundredth
C34_Witness ==
  /\ Len(out.csv.reports) = 2
  /\ out.csv.reports[1].content = "a\nb"
  /\ out.csv.reports[2].content = LongText
  /\ Len(Lines(out.csv.content)) = 3

\* C35: exportHistory of an empty history, in either format, warns, starts
\* no download and changes nothing of the state; of a history that is not
\* empty it starts exactly one download and leaves the history as it is.
C35_ExportHistory ==
  [][ExportHistory =>
       IF AppState.generatedReports = <<>>
       THEN /\ out'.status = "warning"
            /\ out'.downloads = 0
            /\ UNCHANGED <<AppState, localStorage, dom, templates, intervals,
                           nextTimerId, debounce>>
       ELSE /\ out'.downloads = 1
            /\ AppState'.generatedReports = AppState.generatedReports
            /\ HistorySlot' = HistorySlot]_vars

\* an export has just been refused: the history is empty, the user was
\* warned and no download started
C35_Witness ==
  /\ phase = "running"
  /\ AppState.generatedReports = <<>>
  /\ out.status = "warning"
  /\ out.downloads = 0

-----------------------------------------------------------------------------
(* Extraction and injection                                                *)

\* the value a key of a record stands for in a section: the value of the
\* text input or the state of the checkbox with the id, or the value of the
\* selected radio button of the group with the name
ScalarOf(inputs, key) ==
  LET byId == {j \in 1..Len(inputs) :
                 inputs[j].id = key /\ inputs[j].type # "radio"}
      selected == {j \in 1..Len(inputs) :
                     /\ inputs[j].name = key
                     /\ inputs[j].type = "radio"
                     /\ inputs[j].checked}
  IN IF byId # {}
     THEN LET j == CHOOSE j \in byId : TRUE
          IN IF inputs[j].type = "checkbox"
             THEN [set |-> TRUE, checked |-> inputs[j].checked]
             ELSE [set |-> TRUE, value |-> inputs[j].value]
     ELSE IF selected # {}
     THEN [set |-> TRUE, value |-> inputs[CHOOSE j \in selected : TRUE].value]
     ELSE [set |-> FALSE]

\* the keys of the scalar fields of a section
ScalarKeys(inputs) ==
  {IF inputs[j].type = "radio" THEN inputs[j].name ELSE inputs[j].id :
     j \in 1..Len(inputs)}

\* C36: after a record r is extracted from a section and injected into it,
\* whatever state the section is in by then, every scalar field whose key is
\* in r (text, checkbox, selected radio button of a group) has the value it
\* had when r was extracted, and every field whose key is not in r is as it
\* was before the injection.
C36_RoundTrip ==
  [][RoundTripOf(out'.roundtrip.source, out'.roundtrip.target) =>
       \A trip \in {out'.roundtrip} :
       \A key \in ScalarKeys(trip.source) :
         IF key \in DOMAIN trip.record.v
         THEN ScalarOf(trip.after, key) = ScalarOf(trip.source, key)
         ELSE ScalarOf(trip.after, key) = ScalarOf(trip.target, key)]_vars

-----------------------------------------------------------------------------
(* Edits, switches and exits                                               *)

\* the section of a report type holds values that the record stored for the
\* type in AppState.formData does not: where the form changes by edits and
\* injections only, an edit of the section is not saved yet
Unsaved(t) ==
  IF AppState.formData[t] = Undefined THEN dom.sec[t] # BlankSection(t)
  ELSE AppState.formData[t].f # dom.sec[t]

\* the records of the persisted form data after a step
FormDataSlot == localStorage["kyntraFormData"]

\* C37: when the debounced save fires, the values of every section with an
\* edit not saved yet, the visible one or one the user has switched away
\* from, are stored under its report type in AppState.formData and in the
\* persisted form data, and the record of every other report type is the
\* one stored before or the extraction of its own section.
C37_PendingSaveSurvivesSwitch ==
  [][DebouncedSave =>
       /\ FormDataSlot' = JSONstringify(AppState'.formData)
       /\ \A t \in ReportTypes :
            IF Unsaved(t)
            THEN AppState'.formData[t] = getFormData(dom, t)
            ELSE AppState'.formData[t]
                   \in {AppState.formData[t], getFormData(dom, t)}]_vars

\* C38: from an edit of a field on, as long as no snapshot save has
\* succeeded, every attempt to leave the page asks for confirmation, the
\* attempt made before the debounced save has fired included. (Where no
\* snapshot is ever saved: an attempt while the debounced save is pending or
\* the tracker is Dirty.)
C38_NoUnguardedExit ==
  [][(BeforeUnload /\ (debounce \/ AppState.isDirty)) => out'.prompt]_vars

\* C39: a firing of the timer whose storage write fails lets no error out,
\* leaves the tracker Dirty, lastSaveTime, the stored snapshot and the timer
\* as they were, the timer alive; the firing after it attempts the save
\* again, and saves if storage takes the snapshot by then.
C39_FailedSaveRetried ==
  [][/\ (AppState.isDirty /\ TickWith(FALSE)) =>
          /\ ~out'.threw
          /\ out'.failed
          /\ AppState'.isDirty
          /\ AppState'.lastSaveTime = AppState.lastSaveTime
          /\ localStorage'["kyntraAutoSave"] = localStorage["kyntraAutoSave"]
          /\ intervals' = intervals
          /\ AppState'.autoSaveTimer = AppState.autoSaveTimer
          /\ AppState'.autoSaveTimer \in intervals'
     /\ (out.failed /\ Tick) => (out'.saves = 1 \/ out'.failed)
     /\ (out.failed /\ TickWith(TRUE)) =>
          /\ out'.saves = 1
          /\ ~AppState'.isDirty
          /\ AppState'.lastSaveTime = now]_vars

\* a firing has just failed to write the snapshot: the tracker is Dirty and
\* the timer alive
C39_Witness ==
  /\ phase = "running"
  /\ out.failed
  /\ out.saves = 0
  /\ AppState.isDirty
  /\ AppState.autoSaveTimer \in intervals

\* C40: clearForm on the visible section empties its scalar fields and cuts
\* each repeated group to one blank item, and changes nothing else: the
\* other sections, AppState (formData, the dirty flag, the history), the
\* persisted form data, the snapshot and the timers are as before. A
\* switchReport to a report type injects the record the persisted form data
\* hold for it, so after a clearForm the record saved earlier comes back.
C40_ClearFormFrame ==
  [][/\ ClearForm =>
          /\ dom'.sec[dom.active] = BlankSection(dom.active)
          /\ \A t \in ReportTypes \ {dom.active} : dom'.sec[t] = dom.sec[t]
          /\ dom.active = "arrest" =>
               /\ dom'.officers = <<"">>
               /\ dom'.suspects = <<BlankSuspect>>
          /\ dom.active # "arrest" =>
               /\ dom'.officers = dom.officers
               /\ dom'.suspects = dom.suspects
          /\ dom'.active = dom.active
          /\ ~out'.threw
          /\ UNCHANGED <<AppState, localStorage, templates, intervals,
                         nextTimerId, debounce>>
     /\ \A t \in ReportTypes :
          ( /\ NavClickTo(t)
            /\ FormDataSlot.st = "json"
            /\ FormDataSlot.v[t] # Undefined ) =>
              /\ dom'.sec[t] = FormDataSlot.v[t].f
              /\ AppState'.formData[t] = FormDataSlot.v[t]]_vars

\* the arrest section has been cleared after its record was saved and the
\* snapshot taken: the form is blank, the record, the persisted form data and
\* the snapshot still hold the value typed
C40_Witness ==
  /\ phase = "running"
  /\ dom.active = "arrest"
  /\ dom.sec["arrest"] = BlankSection("arrest")
  /\ AppState.formData["arrest"] # Undefined
  /\ AppState.formData["arrest"].f["arrestLocation"] = "x"
  /\ FormDataSlot.st = "json"
  /\ FormDataSlot.v = AppState.formData
  /\ ~AppState.isDirty
  /\ localStorage["kyntraAutoSave"].st = "json"
  /\ localStorage["kyntraAutoSave"].v.formData = AppState.formData

====
